---- MODULE Spec2Model ----
(***************************************************************************)
(* Weight-balanced B+-tree with batch updates (sequential btree,           *)
(* _SEQUENTIAL_BTREE_H_) and the Pareto queue built on it                  *)
(* (PARALLEL_PARETO_QUEUE_H_).                                             *)
(*                                                                         *)
(* Nodes are modelled as values: a leaf is [level, slotuse, slotkey], an   *)
(* inner node is [level, slotuse, slot] with slot a sequence of            *)
(* inner_node_data records [slotkey, weight, childid, minimum]; childid    *)
(* holds the child node itself.  C arrays are 0-based, TLA+ sequences are  *)
(* 1-based: index i of the code is index i+1 of the sequence.  While a     *)
(* call runs, every node also carries id, the address the allocator gave   *)
(* it, so that the call's allocations and frees can be told apart.         *)
(***************************************************************************)
EXTENDS Integers, Sequences, FiniteSets, TLC

-----------------------------------------------------------------------------
(* Bounds of the model: the key universe.                                  *)

\* first_weight ranges over 0..MaxFirst
MaxFirst == 2
\* second_weight ranges over 0..MaxSecond
MaxSecond == 2
\* node ranges over 0..MaxNode
MaxNode == 1
\* longest batch of arbitrary operations handed to apply_updates
MaxBatch == 1
\* most keys in a tree of integer keys that is grown and shrunk key by key
MaxGrow == 66
\* a tree of integer keys slides while its smallest key is at most MaxSlide
MaxSlide == 1
\* most keys deleted from a tree of integer keys by one batch
MaxCut == 4
\* longest batch whose weight delta is computed on its own
MaxOps == 4
\* the longest batch find_lower is run on by itself
MaxLower == 4
\* The leaf a rewrite task of the parallel tree splits holds keys of
\* 1..MaxRewrite, and so does the batch
MaxRewrite == 12
\* most keys in a tree of integer keys that scattered batches are applied to
MaxSpread == 66

-----------------------------------------------------------------------------
(* Compile-time parameters.  Both are preprocessor symbols a build may     *)
(* define (the header's defaults are k = 1024 and b = 8), and the traits   *)
(* clamp both from below by BTREE_MAX(8, .).  The model is the build with  *)
(* -DLEAF_PARAMETER_K=8, the smallest configuration, compiled without      *)
(* NDEBUG: BTREE_ASSERT is active and the node counters are gathered.      *)

LEAF_PARAMETER_K == 8
BRANCHING_PARAMETER_B == 8

BTREE_MAX(a, b) == IF a < b THEN b ELSE a

leafparameter_k == BTREE_MAX(8, LEAF_PARAMETER_K)
branchingparameter_b == BTREE_MAX(8, BRANCHING_PARAMETER_B)

leafslotmax == leafparameter_k
leafslotmin == leafparameter_k \div 4
designated_leafsize == (leafslotmax + leafslotmin) \div 2
innerslotmax == branchingparameter_b * 4
innerslotmin == branchingparameter_b \div 4

\* enum OpType {INSERT=1, DELETE=-1}
INSERT == 1
DELETE == 0 - 1
\* enum OperationBatchType {INSERTS_ONLY=1, DELETES_ONLY=-1, INSERTS_AND_DELETES=2}
INSERTS_ONLY == 1
DELETES_ONLY == 0 - 1
INSERTS_AND_DELETES == 2

-----------------------------------------------------------------------------
(* Keys: the Pareto queue stores labels (node, first_weight, second_weight) *)

\* The key universe: one label per point of the weight grid, and a second
\* node carrying the same label on the inner points of the diagonal
Keys ==
    {k \in [node : 0..MaxNode, first_weight : 0..MaxFirst, second_weight : 0..MaxSecond] :
        k.node = 0 \/ (k.first_weight = k.second_weight
                         /\ 0 < k.first_weight /\ k.first_weight < MaxFirst)}

\* BTreeSetOrderer::operator()
key_less(i, j) ==
    IF i.first_weight = j.first_weight
    THEN IF i.second_weight = j.second_weight
         THEN i.node < j.node
         ELSE i.second_weight < j.second_weight
    ELSE i.first_weight < j.first_weight

key_lessequal(a, b) == ~key_less(b, a)
key_greaterequal(a, b) == ~key_less(a, b)
key_equal(a, b) == ~key_less(a, b) /\ ~key_less(b, a)

\* min_key_type: the label part of a key (conversion data_type -> label_type)
MinKeyOf(k) == [first_weight |-> k.first_weight, second_weight |-> k.second_weight]

\* Content of memory that was never written
Uninit == [node |-> 0 - 1, first_weight |-> 0 - 1, second_weight |-> 0 - 1]
UninitMin == [first_weight |-> 0 - 1, second_weight |-> 0 - 1]

-----------------------------------------------------------------------------
(* Level arithmetic                                                        *)

RECURSIVE ipowLoop(_, _, _)
ipowLoop(result, base, exp) ==
    IF exp <= 0 THEN result
    ELSE ipowLoop(IF exp % 2 = 1 THEN result * base ELSE result, base * base, exp \div 2)

ipow(base, exp) == ipowLoop(1, base, exp)

minweight(level) == (ipow(branchingparameter_b, level) * leafparameter_k) \div 4
maxweight(level) == ipow(branchingparameter_b, level) * leafparameter_k

BoolInt(c) == IF c THEN 1 ELSE 0

\* designated_subtreesize that takes a subtree to hold a single key
designated_subtreesize_unit(level) == 1

designated_subtreesize(level) ==
    LET num_to_round == (maxweight(level - 1) + minweight(level - 1)) \div 2
        remaining == num_to_round % designated_leafsize
    IN  IF remaining = 0
        THEN num_to_round
        ELSE num_to_round - remaining
               + designated_leafsize * BoolInt(remaining >= designated_leafsize - remaining)

num_subtrees(n, subtreesize) ==
    LET q == n \div subtreesize
        remaining == n % subtreesize
        q1 == q + BoolInt(remaining >= subtreesize - remaining)
    IN  q1 + BoolInt(n > 0 /\ q1 = 0)

\* ceil(log((8.0*n)/(5.0*k)) / log(b)) is the least L with b^L >= 8n/(5k)
RECURSIVE CeilLog(_, _)
CeilLog(n, L) ==
    IF 5 * leafparameter_k * ipow(branchingparameter_b, L) >= 8 * n
    THEN L ELSE CeilLog(n, L + 1)

\* num_optimal_levels that stops one level short
num_optimal_levels_low(n) ==
    IF n <= designated_leafsize THEN 0 ELSE CeilLog(n, 0) - 1

num_optimal_levels(n) ==
    IF n <= designated_leafsize THEN 0 ELSE CeilLog(n, 0)

-----------------------------------------------------------------------------
(* Nodes                                                                   *)

\* the null pointer
NULL == [level |-> 0 - 1, slotuse |-> 0]

\* leaf_node after initialize(), allocated at address id
EmptyLeaf(id) == [level |-> 0, slotuse |-> 0, slotkey |-> << >>, id |-> id]

\* inner_node after initialize(l), allocated at address id
EmptyInner(l, id) == [level |-> l, slotuse |-> 0, slot |-> << >>, id |-> id]

\* the address of the spare leaf, which the constructor allocates
SpareId == 0

\* inner_node_data whose fields were never assigned
UninitSlot == [slotkey |-> Uninit, weight |-> 0, childid |-> NULL, minimum |-> UninitMin]

isleafnode(n) == n.level = 0
IsNull(n) == n.level = 0 - 1

\* a[idx] = val for a C array kept as a sequence (idx is 0-based); cells
\* skipped over keep whatever was in memory
RECURSIVE Pad(_, _, _)
Pad(seq, len, filler) == IF Len(seq) >= len THEN seq ELSE Pad(Append(seq, filler), len, filler)

SetAt(seq, idx, val, filler) == [Pad(seq, idx + 1, filler) EXCEPT ![idx + 1] = val]

\* The tree object's transient members during one apply_updates call
\*   updates, batch_type, weightdelta : the running batch
\*   leaves      : leaves created during the current reconstruction effort
\*   stats       : tree_stats
\*   spare_leaf  : leaf used for merging
\*   paths       : the branches the call went through (bookkeeping only)
\*   next_id     : the address the allocator hands out next
\*   live        : the addresses allocated and not freed
\*   double_free : free_node was given an address that is not live
\*   fault       : an assertion failed or memory outside an object was touched;
\*                 what the call does after that point is not modelled (every
\*                 loop below stops as soon as the fault is set)
\*   noting, log : when noting is set, the steps of the call that the
\*                 properties speak about are written to log (bookkeeping only)
Took(t, path) == [t EXCEPT !.paths = @ \cup {path}]

Noted(t, step) == IF t.noting THEN [t EXCEPT !.log = @ \cup {step}] ELSE t

\* new leaf_node / new inner_node: an address that is not in use
Allocated(t) == [t EXCEPT !.next_id = @ + 1, !.live = @ \cup {t.next_id}]

allocate_leaf(t) ==
    [t |-> [Allocated(t) EXCEPT !.stats.leaves = @ + 1], n |-> EmptyLeaf(t.next_id)]

allocate_inner(t, level) ==
    [t |-> [Allocated(t) EXCEPT !.stats.innernodes = @ + 1], n |-> EmptyInner(level, t.next_id)]

\* delete n
Unallocated(t, n) ==
    [t EXCEPT !.double_free = @ \/ n.id \notin t.live, !.live = @ \ {n.id}]

\* free_node that adjusts the counters and keeps the node allocated
free_node_counted(t, n) ==
    IF isleafnode(n)
    THEN [t EXCEPT !.stats.leaves = @ - 1]
    ELSE [t EXCEPT !.stats.innernodes = @ - 1]

free_node(t, n) ==
    IF isleafnode(n)
    THEN [Unallocated(t, n) EXCEPT !.stats.leaves = @ - 1]
    ELSE [Unallocated(t, n) EXCEPT !.stats.innernodes = @ - 1]

RECURSIVE clear_recursive(_, _)
RECURSIVE clear_children(_, _, _)
clear_children(t, innernode, s) ==
    IF s >= innernode.slotuse \/ t.fault THEN t
    ELSE clear_children(clear_recursive(t, innernode.slot[s + 1].childid), innernode, s + 1)

clear_recursive(t, n) ==
    IF ~isleafnode(n)
    THEN free_node(clear_children(t, n, 0), n)
    ELSE free_node(t, n)

-----------------------------------------------------------------------------
(* Aggregate minima (COMPUTE_PARETO_MIN)                                   *)

\* std::min_element over seq[1..n] comparing val(.): the first smallest
RECURSIVE MinIndex(_, _, _, _)
MinIndex(vals, i, n, best) ==
    IF i > n THEN best
    ELSE MinIndex(vals, i + 1, n, IF vals[i] < vals[best] THEN i ELSE best)

\* set_min_element taking the last smallest element of a leaf, not the first
set_min_element_leaf_last(slot, node) ==
    IF node.slotuse = 0 \/ node.slotuse > Len(node.slotkey)
    THEN [slot EXCEPT !.minimum = UninitMin]
    ELSE LET vals == [i \in 1..node.slotuse |->
                         (node.slotuse + 1) * node.slotkey[i].second_weight - i]
         IN  [slot EXCEPT !.minimum = MinKeyOf(node.slotkey[MinIndex(vals, 2, node.slotuse, 1)])]

\* set_min_element(slot, const leaf_node*)
set_min_element_leaf(slot, node) ==
    IF node.slotuse = 0 \/ node.slotuse > Len(node.slotkey)
    THEN [slot EXCEPT !.minimum = UninitMin]
    ELSE LET vals == [i \in 1..node.slotuse |-> node.slotkey[i].second_weight]
         IN  [slot EXCEPT !.minimum = MinKeyOf(node.slotkey[MinIndex(vals, 2, node.slotuse, 1)])]

\* set_min_element(slot, const inner_node*)
set_min_element_inner(slot, node) ==
    IF node.slotuse = 0 \/ node.slotuse > Len(node.slot)
    THEN [slot EXCEPT !.minimum = UninitMin]
    ELSE LET vals == [i \in 1..node.slotuse |-> node.slot[i].minimum.second_weight]
         IN  [slot EXCEPT !.minimum = node.slot[MinIndex(vals, 2, node.slotuse, 1)].minimum]

\* update_router that leaves the old router in place
update_router_stale(slot, new_router) == slot

\* update_router: the router ends up equal to new_router
update_router(slot, new_router) ==
    IF ~key_equal(slot.slotkey, new_router) THEN [slot EXCEPT !.slotkey = new_router] ELSE slot

-----------------------------------------------------------------------------
(* Weight delta of the running batch                                       *)

RECURSIVE PrefixSum(_, _, _, _)
PrefixSum(upds, i, val, wd) ==
    IF i >= Len(upds) THEN wd
    ELSE PrefixSum(upds, i + 1, val + upds[i + 1].type, Append(wd, val + upds[i + 1].type))

\* setOperationsAndComputeWeightDelta that adds the batch length whatever the
\* batch type
setOperationsAndComputeWeightDelta_unsigned(t, _updates, _batch_type) ==
    IF _batch_type = INSERTS_AND_DELETES
    THEN LET wd == PrefixSum(_updates, 0, 0, << 0 >>)
         IN  [t |-> [t EXCEPT !.updates = _updates, !.batch_type = _batch_type, !.weightdelta = wd],
              new_size |-> t.stats.itemcount + wd[Len(_updates) + 1]]
    ELSE [t |-> [t EXCEPT !.updates = _updates, !.batch_type = _batch_type],
          new_size |-> t.stats.itemcount + Len(_updates)]

\* setOperationsAndComputeWeightDelta: returns the tree members and new_size
setOperationsAndComputeWeightDelta(t, _updates, _batch_type) ==
    IF _batch_type = INSERTS_AND_DELETES
    THEN LET wd == PrefixSum(_updates, 0, 0, << 0 >>)
         IN  [t |-> [t EXCEPT !.updates = _updates, !.batch_type = _batch_type, !.weightdelta = wd],
              new_size |-> t.stats.itemcount + wd[Len(_updates) + 1]]
    ELSE [t |-> [t EXCEPT !.updates = _updates, !.batch_type = _batch_type],
          new_size |-> t.stats.itemcount + Len(_updates) * _batch_type]

\* getWeightDelta that takes the length of the range for its weight delta
getWeightDelta_unsigned(t, upd_begin, upd_end) ==
    IF t.batch_type = INSERTS_AND_DELETES
    THEN t.weightdelta[upd_end + 1] - t.weightdelta[upd_begin + 1]
    ELSE upd_end - upd_begin

getWeightDelta(t, upd_begin, upd_end) ==
    IF t.batch_type = INSERTS_AND_DELETES
    THEN t.weightdelta[upd_end + 1] - t.weightdelta[upd_begin + 1]
    ELSE (upd_end - upd_begin) * t.batch_type

\* hasUpdates that takes every subtree to have updates
hasUpdates_always(update) == TRUE

hasUpdates(update) == update.upd_begin # update.upd_end

\* scheduleSubTreeUpdate that forgets the weight delta of the subtree's updates
scheduleSubTreeUpdate_stale(t, weight, min_weight, max_weight, subupd_begin, subupd_end) ==
    [rebalancing_needed |-> (weight < min_weight \/ weight > max_weight),
     weight |-> weight, upd_begin |-> subupd_begin, upd_end |-> subupd_end]

\* scheduleSubTreeUpdate: the descriptor written to subtree_updates[i]
scheduleSubTreeUpdate(t, weight, min_weight, max_weight, subupd_begin, subupd_end) ==
    LET w == weight + getWeightDelta(t, subupd_begin, subupd_end)
    IN  [rebalancing_needed |-> (w < min_weight \/ w > max_weight),
         weight |-> w, upd_begin |-> subupd_begin, upd_end |-> subupd_end]

\* find_lower that hands the update of a router key to the next subtree
RECURSIVE find_lower_next(_, _, _, _)
find_lower_next(t, lo, hi, key) ==
    IF lo < hi
    THEN LET mid == (lo + hi) \div 2
         IN  IF key_lessequal(key, t.updates[mid + 1].data)
             THEN find_lower_next(t, lo, mid, key)
             ELSE find_lower_next(t, mid + 1, hi, key)
    ELSE hi

RECURSIVE find_lower(_, _, _, _)
find_lower(t, lo, hi, key) ==
    IF lo < hi
    THEN LET mid == (lo + hi) \div 2
         IN  IF key_less(key, t.updates[mid + 1].data)
             THEN find_lower(t, lo, mid, key)
             ELSE find_lower(t, mid + 1, hi, key)
    ELSE hi

\* The distribution loop of update(): subtree_updates[0..slotuse-1]
RECURSIVE distribute(_, _, _, _, _, _)
distribute(t, inner, i, subupd_begin, upd_end, su) ==
    LET min_weight == minweight(inner.level - 1)
        max_weight == maxweight(inner.level - 1)
        last == inner.slotuse - 1
    IN  IF i < last
        THEN LET subupd_end == find_lower(t, subupd_begin, upd_end, inner.slot[i + 1].slotkey)
             IN  distribute(t, inner, i + 1, subupd_end, upd_end,
                     Append(su, scheduleSubTreeUpdate(t, inner.slot[i + 1].weight,
                                    min_weight, max_weight, subupd_begin, subupd_end)))
        ELSE Append(su, scheduleSubTreeUpdate(t, inner.slot[last + 1].weight,
                                    min_weight, max_weight, subupd_begin, upd_end))

AnyRebalancing(su) == \E i \in 1..Len(su) : su[i].rebalancing_needed

-----------------------------------------------------------------------------
(* Leaf-level actions                                                      *)

hasNextLeaf(leaves, leaf_count) == leaf_count + 1 < Len(leaves)

\* result->slotkey[out++] = key, where result = leaves[leaf_number];
\* s = [in, out, leaf_number, leaves, fault]
PutKey(s, key) ==
    IF s.out >= leafslotmax \/ s.leaf_number >= Len(s.leaves) \/ s.leaf_number < 0
    THEN [s EXCEPT !.out = @ + 1, !.fault = TRUE]
    ELSE [s EXCEPT !.leaves[s.leaf_number + 1].slotkey = SetAt(@, s.out, key, Uninit),
                   !.out = @ + 1]

\* if (out == designated_leafsize && hasNextLeaf(leaf_number) [&& more]) {...}
NextLeaf(s, more) ==
    IF s.out = designated_leafsize /\ hasNextLeaf(s.leaves, s.leaf_number) /\ more
    THEN [s EXCEPT !.leaves[s.leaf_number + 1].slotuse = designated_leafsize,
                   !.leaf_number = @ + 1, !.out = 0]
    ELSE s

\* while ([in < leaf->slotuse &&] key_less(leaf->slotkey[in], data)) { copy; advance }
\* The DELETE loop has no bounds check: running past slotuse reads stale memory.
RECURSIVE rewrite_copy_less(_, _, _, _)
rewrite_copy_less(leaf, data, s, bounded) ==
    IF s.in >= leaf.slotuse
    THEN IF bounded THEN s ELSE [s EXCEPT !.fault = TRUE]
    ELSE IF key_less(leaf.slotkey[s.in + 1], data)
         THEN rewrite_copy_less(leaf, data,
                  NextLeaf(PutKey([s EXCEPT !.in = @ + 1], leaf.slotkey[s.in + 1]), TRUE), bounded)
         ELSE s

RECURSIVE rewrite_ops(_, _, _, _, _)
\* the iterations i..upd_end-1 of the loop over the updates: the iterations of
\* the first half of the range, then those of the second half
rewrite_ops(t, leaf, i, upd_end, s) ==
    IF i = upd_end \/ s.fault THEN s
    ELSE IF upd_end - i > 1
    THEN rewrite_ops(t, leaf, (i + upd_end) \div 2, upd_end,
                     rewrite_ops(t, leaf, i, (i + upd_end) \div 2, s))
    ELSE LET op == t.updates[i + 1]
         IN  IF op.type = DELETE
             THEN LET s1 == rewrite_copy_less(leaf, op.data, s, FALSE)
                  IN  [s1 EXCEPT !.in = @ + 1]
             ELSE LET s1 == rewrite_copy_less(leaf, op.data, s, TRUE)
                  IN  NextLeaf(PutKey(s1, op.data), TRUE)

RECURSIVE rewrite_rest(_, _)
rewrite_rest(leaf, s) ==
    IF s.in < leaf.slotuse
    THEN rewrite_rest(leaf, NextLeaf(PutKey([s EXCEPT !.in = @ + 1], leaf.slotkey[s.in + 1]),
                                     s.in + 1 < leaf.slotuse))
    ELSE s

\* write_updated_leaf_to_new_tree that keeps the offset of the leaf after the
\* last one when the keys are squeezed into the last leaf
write_updated_leaf_unsqueezed(t, node, rank, upd) ==
    LET ln0 == rank \div designated_leafsize
        squeezed == ln0 >= Len(t.leaves)
        leaf_number == IF squeezed THEN Len(t.leaves) - 1 ELSE ln0
        offset_in_leaf == rank % designated_leafsize
        s0 == [in |-> 0, out |-> offset_in_leaf, leaf_number |-> leaf_number,
               leaves |-> t.leaves, fault |-> FALSE]
        \* result->slotuse = out, s being the state the three loops end in
        Close(s) ==
            IF s.leaf_number < 0 \/ s.leaf_number >= Len(s.leaves)
            THEN [t EXCEPT !.fault = TRUE]
            ELSE [Took(t, "rewrite") EXCEPT
                       !.leaves = [s.leaves EXCEPT ![s.leaf_number + 1].slotuse = s.out],
                       !.fault = @ \/ s.fault]
    IN  Close(rewrite_rest(node, rewrite_ops(t, node, upd.upd_begin, upd.upd_end, s0)))

write_updated_leaf_to_new_tree(t, node, rank, upd) ==
    LET ln0 == rank \div designated_leafsize
        squeezed == ln0 >= Len(t.leaves)
        leaf_number == IF squeezed THEN Len(t.leaves) - 1 ELSE ln0
        offset_in_leaf == IF squeezed THEN rank - leaf_number * designated_leafsize
                          ELSE rank % designated_leafsize
        s0 == [in |-> 0, out |-> offset_in_leaf, leaf_number |-> leaf_number,
               leaves |-> t.leaves, fault |-> FALSE]
        \* result->slotuse = out, s being the state the three loops end in
        Close(s) ==
            IF s.leaf_number < 0 \/ s.leaf_number >= Len(s.leaves)
            THEN [t EXCEPT !.fault = TRUE]
            ELSE [Took(t, "rewrite") EXCEPT
                       !.leaves = [s.leaves EXCEPT ![s.leaf_number + 1].slotuse = s.out],
                       !.fault = @ \/ s.fault]
    IN  Close(rewrite_rest(node, rewrite_ops(t, node, upd.upd_begin, upd.upd_end, s0)))

\* The merge loops of update_leaf_in_current_tree; s = [in, out, fault], out
\* being the keys written to the spare leaf so far
RECURSIVE patch_copy_less(_, _, _, _)
patch_copy_less(leaf, data, s, bounded) ==
    IF s.in >= leaf.slotuse
    THEN IF bounded THEN s ELSE [s EXCEPT !.fault = TRUE]
    ELSE IF key_less(leaf.slotkey[s.in + 1], data)
         THEN patch_copy_less(leaf, data,
                  [s EXCEPT !.in = @ + 1, !.out = Append(@, leaf.slotkey[s.in + 1])], bounded)
         ELSE s

RECURSIVE patch_ops(_, _, _, _, _)
\* patch_ops that writes an inserted key before the smaller keys of the leaf
patch_ops_early(t, leaf, i, upd_end, s) ==
    IF i = upd_end \/ s.fault THEN s
    ELSE LET op == t.updates[i + 1]
         IN  IF op.type = DELETE
             THEN LET s1 == patch_copy_less(leaf, op.data, s, FALSE)
                  IN  patch_ops(t, leaf, i + 1, upd_end, [s1 EXCEPT !.in = @ + 1])
             ELSE LET s1 == patch_copy_less(leaf, op.data,
                                            [s EXCEPT !.out = Append(@, op.data)], TRUE)
                  IN  patch_ops(t, leaf, i + 1, upd_end, s1)

patch_ops(t, leaf, i, upd_end, s) ==
    IF i = upd_end \/ s.fault THEN s
    ELSE LET op == t.updates[i + 1]
         IN  IF op.type = DELETE
             THEN LET s1 == patch_copy_less(leaf, op.data, s, FALSE)
                  IN  patch_ops(t, leaf, i + 1, upd_end, [s1 EXCEPT !.in = @ + 1])
             ELSE LET s1 == patch_copy_less(leaf, op.data, s, TRUE)
                  IN  patch_ops(t, leaf, i + 1, upd_end, [s1 EXCEPT !.out = Append(@, op.data)])

\* returns the tree members and the slot
update_leaf_in_current_tree(t, slot, upd) ==
    LET leaf == slot.childid
        \* result->slotuse = ...; set_min_element; update_router; the spare leaf
        \* and the slot's leaf change places
        Install(keys, fault) ==
            LET result == [level |-> 0, slotuse |-> Len(keys), slotkey |-> keys,
                           id |-> t.spare_leaf.id]
                Routed(slot1) ==
                    IF Len(keys) = 0 THEN slot1 ELSE update_router(slot1, keys[Len(keys)])
            IN  [t |-> [Took(Noted(t, [op |-> "patch", from |-> leaf, slotkey |-> keys,
                                       slotuse |-> result.slotuse]), "patch") EXCEPT
                            !.spare_leaf = slot.childid,
                            !.fault = @ \/ fault \/ Len(keys) > leafslotmax \/ Len(keys) = 0],
                 slot |-> [Routed(set_min_element_leaf(slot, result)) EXCEPT !.childid = result]]
        \* memcpy of the keys the merge loop s left unread
        Merge(s) ==
            Install(s.out \o (IF s.in < leaf.slotuse
                              THEN SubSeq(leaf.slotkey, s.in + 1, leaf.slotuse) ELSE << >>),
                    s.fault \/ s.in > leaf.slotuse)
    IN  Merge(patch_ops(t, leaf, upd.upd_begin, upd.upd_end,
                        [in |-> 0, out |-> << >>, fault |-> FALSE]))

-----------------------------------------------------------------------------
(* Fresh-tree construction                                                 *)

RECURSIVE allocate_n_leaves(_, _)
\* n iterations of leaves.push_back(allocate_leaf()): the first half of them,
\* then the second half
allocate_n_leaves(t, n) ==
    IF n <= 0 \/ t.fault THEN t
    ELSE IF n > 1
    THEN allocate_n_leaves(allocate_n_leaves(t, n \div 2), n - n \div 2)
    ELSE LET a == allocate_leaf(t)
         IN  [a.t EXCEPT !.leaves = Append(@, a.n)]

allocate_new_leaves(t, n) ==
    allocate_n_leaves([t EXCEPT !.leaves = << >>], num_subtrees(n, designated_leafsize))

\* the leaves as a rewrite of n keys left them, as the properties read them
Rewritten(t, n) == Noted(t, [op |-> "rewrite", n |-> n, leaves |-> t.leaves])

\* returns [t, slot, ret]
RECURSIVE create_subtree_from_leaves(_, _, _, _, _, _)
RECURSIVE create_slots(_, _, _, _, _, _, _, _)
\* create_slots that gives the last subtree the designated size as well
create_slots_even(t, result, i, new_slotuse, level, rank, rank_end, designated_treesize) ==
    IF i >= new_slotuse \/ t.fault THEN [t |-> t, result |-> result]
    ELSE LET weight == designated_treesize
             cur == IF i < Len(result.slot) THEN result.slot[i + 1] ELSE UninitSlot
             Store(c) ==
                 create_slots(c.t, [result EXCEPT !.slot = SetAt(@, i, c.slot, UninitSlot)],
                              i + 1, new_slotuse, level, rank + weight, rank_end,
                              designated_treesize)
         IN  Store(create_subtree_from_leaves(t, [cur EXCEPT !.weight = weight], FALSE,
                                              level - 1, rank, rank + weight))

create_slots(t, result, i, new_slotuse, level, rank, rank_end, designated_treesize) ==
    IF i >= new_slotuse \/ t.fault THEN [t |-> t, result |-> result]
    ELSE LET weight == IF i # new_slotuse - 1 THEN designated_treesize ELSE rank_end - rank
             cur == IF i < Len(result.slot) THEN result.slot[i + 1] ELSE UninitSlot
             \* result->slot[i] is the slot c the recursive call filled in
             Store(c) ==
                 create_slots(c.t, [result EXCEPT !.slot = SetAt(@, i, c.slot, UninitSlot)],
                              i + 1, new_slotuse, level, rank + weight, rank_end,
                              designated_treesize)
         IN  Store(create_subtree_from_leaves(t, [cur EXCEPT !.weight = weight], FALSE,
                                              level - 1, rank, rank + weight))

create_subtree_from_leaves(t, slot, reuse_outnode, level, rank_begin, rank_end) ==
    IF rank_end - rank_begin <= 0
    THEN [t |-> [t EXCEPT !.fault = TRUE], slot |-> slot, ret |-> 0]
    ELSE IF level = 0
    THEN LET idx == rank_begin \div designated_leafsize
             slotuse == rank_end - rank_begin
         IN  IF idx >= Len(t.leaves)
             THEN [t |-> [t EXCEPT !.fault = TRUE], slot |-> slot, ret |-> 1]
             ELSE LET result == t.leaves[idx + 1]
                      ok == slotuse = result.slotuse /\ slotuse <= Len(result.slotkey)
                      Routed(slot1) ==
                          IF slotuse <= Len(result.slotkey)
                          THEN update_router(slot1, result.slotkey[slotuse])
                          ELSE [slot1 EXCEPT !.slotkey = Uninit]
                  IN  [t |-> [t EXCEPT !.fault = @ \/ ~ok],
                       slot |-> [Routed(set_min_element_leaf(slot, result))
                                    EXCEPT !.childid = result],
                       ret |-> 1]
    ELSE LET n == rank_end - rank_begin
             designated_treesize == designated_subtreesize(level)
             \* set_min_element(slot, result); update_router(...); return subtrees
             \* the slots old_slotuse .. new_slotuse-1 of the node, as the
             \* properties read them
             Created(c, new_slotuse, subtrees) ==
                 LET new == [i \in 1..subtrees |->
                                IF new_slotuse - subtrees + i <= Len(c.result.slot)
                                THEN c.result.slot[new_slotuse - subtrees + i] ELSE UninitSlot]
                 IN  [op |-> "create", level |-> level, n |-> n, rank_begin |-> rank_begin,
                      new_slotuse |-> new_slotuse,
                      weight |-> [i \in 1..subtrees |-> new[i].weight],
                      child_slotuse |-> [i \in 1..subtrees |-> new[i].childid.slotuse],
                      leaf_slotuse |-> [i \in 1..Len(c.t.leaves) |-> c.t.leaves[i].slotuse]]
             Linked(c, new_slotuse, subtrees) ==
                 IF c.t.fault
                 THEN [t |-> Noted(c.t, Created(c, new_slotuse, subtrees)),
                       slot |-> slot, ret |-> subtrees]
                 ELSE [t |-> Noted(c.t, Created(c, new_slotuse, subtrees)),
                       slot |-> update_router(
                                    set_min_element_inner([slot EXCEPT !.childid = c.result],
                                                          c.result),
                                    c.result.slot[new_slotuse].slotkey),
                       ret |-> subtrees]
             \* a = [t, n], n being the node the subtrees are appended to
             Fill(a, old_slotuse, new_slotuse, subtrees) ==
                 Linked(create_slots([a.t EXCEPT !.fault = @ \/ new_slotuse > innerslotmax],
                                     [a.n EXCEPT !.slotuse = new_slotuse],
                                     old_slotuse, new_slotuse, level,
                                     rank_begin, rank_end, designated_treesize),
                        new_slotuse, subtrees)
             Append_(a, old_slotuse, subtrees) ==
                 Fill(a, old_slotuse, subtrees + old_slotuse, subtrees)
         IN  IF reuse_outnode
             THEN Append_([t |-> t, n |-> slot.childid], slot.childid.slotuse,
                          num_subtrees(n, designated_treesize))
             ELSE Append_(allocate_inner(t, level), 0, num_subtrees(n, designated_treesize))

-----------------------------------------------------------------------------
(* Recursive tree update                                                   *)

SeqRange(q) == {q[i] : i \in 1..Len(q)}

RECURSIVE Addresses(_)
RECURSIVE SlotAddresses(_, _)
SlotAddresses(inner, i) ==
    IF i > inner.slotuse \/ i > Len(inner.slot) THEN << >>
    ELSE Addresses(inner.slot[i].childid) \o SlotAddresses(inner, i + 1)

\* the addresses of the nodes of the tree below n, one entry for every slot
\* that points to a node
Addresses(n) ==
    IF IsNull(n) THEN << >>
    ELSE IF isleafnode(n) THEN << n.id >> ELSE << n.id >> \o SlotAddresses(n, 1)

\* The inner while of the rebalancing branch: the run of subtrees starting at
\* slot in; r = [in, weight, open]
RECURSIVE find_run(_, _, _, _)
find_run(inner, su, designated_treesize, r) ==
    IF r.in < inner.slotuse
       /\ (su[r.in + 1].rebalancing_needed
           \/ (r.open /\ r.weight # 0 /\ r.weight < designated_treesize))
    THEN find_run(inner, su, designated_treesize,
                  [in |-> r.in + 1, weight |-> r.weight + su[r.in + 1].weight, open |-> TRUE])
    ELSE r

\* clear_range that leaves the subtrees of the run as they are
clear_range_kept(t, inner, i, end) == t

RECURSIVE clear_range(_, _, _, _)
clear_range(t, inner, i, end) ==
    IF i >= end \/ t.fault THEN t
    ELSE clear_range(clear_recursive(t, inner.slot[i + 1].childid), inner, i + 1, end)

\* update returns [t, slot]; updateSubTreesInRange returns [t, node];
\* rebalance (the outer while of the rebalancing branch) returns [t, result, out]
RECURSIVE update(_, _, _, _, _)
RECURSIVE updateSubTreesFrom(_, _, _, _, _, _, _)
RECURSIVE rebalance(_, _, _, _, _, _, _)

updateSubTreesFrom(t, node, i, end, subtree_rank, rewrite_subtree, subtree_updates) ==
    IF i >= end \/ t.fault THEN [t |-> t, node |-> node]
    ELSE LET d == subtree_updates[i + 1]
             \* node->slot[i] as update() left it, with the scheduled weight
             Updated(r) ==
                 updateSubTreesFrom(r.t,
                     [node EXCEPT !.slot[i + 1] = [r.slot EXCEPT !.weight = d.weight]],
                     i + 1, end, subtree_rank + d.weight, rewrite_subtree, subtree_updates)
         IN  IF d.weight = 0
             THEN updateSubTreesFrom(clear_recursive(t, node.slot[i + 1].childid), node, i + 1,
                                     end, subtree_rank + d.weight, rewrite_subtree, subtree_updates)
             ELSE IF rewrite_subtree \/ hasUpdates(d)
             THEN Updated(update(t, node.slot[i + 1], subtree_rank, d, rewrite_subtree))
             ELSE updateSubTreesFrom(t, node, i + 1, end, subtree_rank + d.weight,
                                     rewrite_subtree, subtree_updates)

updateSubTreesInRange(t, node, begin, end, rank, rewrite_subtree, subtree_updates) ==
    updateSubTreesFrom(t, node, begin, end, rank, rewrite_subtree, subtree_updates)

rebalance(t, inner, result, in, out, su, designated_treesize) ==
    IF in >= inner.slotuse \/ t.fault THEN [t |-> t, result |-> result, out |-> out]
    ELSE LET copied == [inner.slot[in + 1] EXCEPT !.weight = su[in + 1].weight]
             fake_slot == [UninitSlot EXCEPT !.childid = [result EXCEPT !.slotuse = out]]
             \* result->slot[out] = inner->slot[in], updated where it has updates
             Copy(r) ==
                 rebalance(Noted(r.t, [op |-> "copy", level |-> inner.level, of |-> inner.id,
                                       in |-> in, out |-> out, upd |-> su[in + 1],
                                       before |-> inner.slot[in + 1], after |-> r.slot]),
                           inner, [result EXCEPT !.slot = SetAt(@, out, r.slot, UninitSlot)],
                           in + 1, out + 1, su, designated_treesize)
             \* out += create_subtree_from_leaves(fake_slot, true, ...); in = end of run
             Fresh(c, end) ==
                 rebalance(c.t, inner, c.slot.childid, end, out + c.ret, su, designated_treesize)
             \* the run in..end-1 of subtrees that are left without keys, as
             \* the properties read it
             Emptied(end) ==
                 [op |-> "emptyrun", level |-> inner.level, begin |-> in, end |-> end,
                  nodes |-> UNION {SeqRange(Addresses(inner.slot[i + 1].childid)) :
                                      i \in in..(end - 1)}]
             \* run = [in, weight, open]: the slots in..run.in-1 are rewritten together
             Run(run) ==
                 IF run.open
                 THEN IF run.weight = 0
                      THEN rebalance(clear_range(Noted(Took(t, "emptyrun"), Emptied(run.in)),
                                                 inner, in, run.in),
                                     inner, result, run.in, out, su, designated_treesize)
                      ELSE Fresh(create_subtree_from_leaves(
                                     Rewritten(updateSubTreesInRange(
                                                   allocate_new_leaves(Took(t, "run"), run.weight),
                                                   inner, in, run.in, 0, TRUE, su).t,
                                               run.weight),
                                     fake_slot, TRUE, result.level, 0, run.weight),
                                 run.in)
                 ELSE IF hasUpdates(su[in + 1])
                      THEN Copy(update(t, copied, 0 - 1, su[in + 1], FALSE))
                      ELSE Copy([t |-> Took(t, "copy"), slot |-> copied])
         IN  Run(find_run(inner, su, designated_treesize,
                          [in |-> in, weight |-> 0, open |-> FALSE]))

update(t, slot, rank, upd, rewrite_subtree) ==
    LET inner == slot.childid
        \* if (rewrite_subtree) free_node(slot.childid)
        Done(r) ==
            IF rewrite_subtree
            THEN [t |-> free_node(r.t, r.slot.childid), slot |-> r.slot]
            ELSE r
        \* no rebalancing: set_min_element and update_router on the node u.node
        InPlace(u) ==
            [t |-> u.t,
             slot |-> update_router(
                          set_min_element_inner([slot EXCEPT !.childid = u.node], u.node),
                          u.node.slot[u.node.slotuse].slotkey)]
        Routed(slot1, result, out) ==
            IF out >= 1 /\ out <= Len(result.slot)
            THEN update_router(slot1, result.slot[out].slotkey)
            ELSE [slot1 EXCEPT !.slotkey = Uninit]
        \* rebalancing: result, holding out slots, takes the place of slot.childid
        Replace(t1, result, out) ==
            [t |-> [free_node(t1, slot.childid) EXCEPT !.fault = @ \/ out < 1],
             slot |-> [Routed(set_min_element_inner(slot, result), result, out)
                          EXCEPT !.childid = result]]
        Rebalanced(b, subtree_updates) ==
            Replace(Noted(b.t, [op |-> "rebalanced", level |-> inner.level, of |-> inner.id,
                                slotuse |-> inner.slotuse, subtree_updates |-> subtree_updates,
                                out |-> b.out,
                                weight |-> [i \in 1..b.out |->
                                               IF i <= Len(b.result.slot)
                                               THEN b.result.slot[i].weight ELSE 0]]),
                    [b.result EXCEPT !.slotuse = b.out], b.out)
        Rebalance(a, subtree_updates) ==
            Rebalanced(rebalance(a.t, inner, a.n, 0, 0, subtree_updates,
                                 designated_subtreesize(inner.level)),
                       subtree_updates)
        \* the distribution of the operations, as the properties read it
        Distribution(subtree_updates) ==
            [op |-> "distribute", level |-> inner.level,
             slotkey |-> [i \in 1..inner.slotuse |-> inner.slot[i].slotkey],
             upd_begin |-> upd.upd_begin, upd_end |-> upd.upd_end,
             subtree_updates |-> subtree_updates]
        \* the node before and after the updates were pushed down, as the
        \* properties read it
        Kept(u, subtree_updates) ==
            [t |-> Noted(u.t, [op |-> "inplace", rewrite_subtree |-> rewrite_subtree,
                               before |-> inner, after |-> u.node,
                               subtree_updates |-> subtree_updates]),
             node |-> u.node]
        Pushed(t1, subtree_updates) ==
            IF ~AnyRebalancing(subtree_updates) \/ rewrite_subtree
            THEN InPlace(Kept(updateSubTreesInRange(t1, inner, 0, inner.slotuse, rank,
                                                    rewrite_subtree, subtree_updates),
                              subtree_updates))
            ELSE Rebalance(allocate_inner(t1, inner.level), subtree_updates)
        Inner(subtree_updates) ==
            Pushed(Noted(t, Distribution(subtree_updates)), subtree_updates)
    IN  Done(IF isleafnode(slot.childid)
             THEN IF rewrite_subtree
                  THEN [t |-> write_updated_leaf_to_new_tree(t, slot.childid, rank, upd),
                        slot |-> slot]
                  ELSE update_leaf_in_current_tree(t, slot, upd)
             ELSE Inner(distribute(t, inner, 0, upd.upd_begin, upd.upd_end, << >>)))

-----------------------------------------------------------------------------
(* Public operations of the tree                                           *)

\* clear() that frees the nodes and keeps the root pointer
clear_dangling(t, root) ==
    LET Released(t1) ==
            [t |-> [t1 EXCEPT !.fault = @ \/ t1.stats.innernodes # 0 \/ t1.stats.leaves # 0],
             root |-> root]
    IN  Released(IF ~IsNull(root) THEN clear_recursive(t, root) ELSE t)

\* clear(): returns [t, root]
clear(t, root) ==
    LET \* BTREE_ASSERT(stats.innernodes == 0); BTREE_ASSERT(stats.leaves == 0)
        Released(t1) ==
            [t |-> [t1 EXCEPT !.fault = @ \/ t1.stats.innernodes # 0 \/ t1.stats.leaves # 0],
             root |-> NULL]
    IN  Released(IF ~IsNull(root) THEN clear_recursive(t, root) ELSE t)

\* apply_updates that rebuilds a tree on the level its root is on
apply_updates_keep_level(t, root, _updates, _batch_type) ==
    LET Root(c) == [t |-> c.t, root |-> c.slot.childid]
        \* a = [t, n], n being the root the update starts from
        Update(a, new_size, level) ==
            LET rebuild_needed == (level < a.n.level /\ new_size < minweight(a.n.level))
                                    \/ new_size > maxweight(a.n.level)
                upd == [rebalancing_needed |-> rebuild_needed, weight |-> new_size,
                        upd_begin |-> 0, upd_end |-> Len(_updates)]
                Rebuild(u) ==
                    IF rebuild_needed
                    THEN Root(create_subtree_from_leaves(u.t, u.slot, FALSE, level, 0, new_size))
                    ELSE Root(u)
            IN  Rebuild(update(IF rebuild_needed
                               THEN allocate_new_leaves(Took(a.t, "rebuild"), new_size)
                               ELSE Took(a.t, "in_place"),
                               [UninitSlot EXCEPT !.childid = a.n], 0, upd, rebuild_needed))
        Resize(t1, new_size) ==
            IF new_size = 0
            THEN clear(Took(t1, IF IsNull(root) THEN "clear_empty"
                                ELSE IF isleafnode(root) THEN "clear_leaf" ELSE "clear_inner"),
                       root)
            ELSE Update(IF IsNull(root) THEN allocate_leaf(t1) ELSE [t |-> t1, n |-> root],
                        new_size,
                        IF IsNull(root) THEN 0 ELSE root.level)
        \* stats.itemcount = new_size
        Count(w) == Resize([w.t EXCEPT !.stats.itemcount = w.new_size], w.new_size)
    IN  Count(setOperationsAndComputeWeightDelta(t, _updates, _batch_type))

\* apply_updates that rebuilds a tree as soon as its root is full
apply_updates_eager(t, root, _updates, _batch_type) ==
    LET Root(c) == [t |-> c.t, root |-> c.slot.childid]
        \* a = [t, n], n being the root the update starts from
        Update(a, new_size, level) ==
            LET rebuild_needed == (level < a.n.level /\ new_size < minweight(a.n.level))
                                    \/ new_size >= maxweight(a.n.level)
                upd == [rebalancing_needed |-> rebuild_needed, weight |-> new_size,
                        upd_begin |-> 0, upd_end |-> Len(_updates)]
                Rebuild(u) ==
                    IF rebuild_needed
                    THEN Root(create_subtree_from_leaves(u.t, u.slot, FALSE, level, 0, new_size))
                    ELSE Root(u)
            IN  Rebuild(update(IF rebuild_needed
                               THEN allocate_new_leaves(Took(a.t, "rebuild"), new_size)
                               ELSE Took(a.t, "in_place"),
                               [UninitSlot EXCEPT !.childid = a.n], 0, upd, rebuild_needed))
        Resize(t1, new_size) ==
            IF new_size = 0
            THEN clear(Took(t1, IF IsNull(root) THEN "clear_empty"
                                ELSE IF isleafnode(root) THEN "clear_leaf" ELSE "clear_inner"),
                       root)
            ELSE Update(IF IsNull(root) THEN allocate_leaf(t1) ELSE [t |-> t1, n |-> root],
                        new_size, num_optimal_levels(new_size))
        \* stats.itemcount = new_size
        Count(w) == Resize([w.t EXCEPT !.stats.itemcount = w.new_size], w.new_size)
    IN  Count(setOperationsAndComputeWeightDelta(t, _updates, _batch_type))

\* apply_updates(_updates, _batch_type): returns [t, root]
apply_updates(t, root, _updates, _batch_type) ==
    LET Root(c) == [t |-> c.t, root |-> c.slot.childid]
        \* a = [t, n], n being the root the update starts from
        Update(a, new_size, level) ==
            LET rebuild_needed == (level < a.n.level /\ new_size < minweight(a.n.level))
                                    \/ new_size > maxweight(a.n.level)
                upd == [rebalancing_needed |-> rebuild_needed, weight |-> new_size,
                        upd_begin |-> 0, upd_end |-> Len(_updates)]
                Rebuild(u) ==
                    IF rebuild_needed
                    THEN Root(create_subtree_from_leaves(Rewritten(u.t, new_size), u.slot, FALSE,
                                                         level, 0, new_size))
                    ELSE Root(u)
            IN  Rebuild(update(IF rebuild_needed
                               THEN allocate_new_leaves(Took(a.t, "rebuild"), new_size)
                               ELSE Took(a.t, "in_place"),
                               [UninitSlot EXCEPT !.childid = a.n], 0, upd, rebuild_needed))
        Resize(t1, new_size) ==
            IF new_size = 0
            THEN clear(Took(t1, IF IsNull(root) THEN "clear_empty"
                                ELSE IF isleafnode(root) THEN "clear_leaf" ELSE "clear_inner"),
                       root)
            ELSE Update(IF IsNull(root) THEN allocate_leaf(t1) ELSE [t |-> t1, n |-> root],
                        new_size, num_optimal_levels(new_size))
        \* stats.itemcount = new_size
        Count(w) == Resize([w.t EXCEPT !.stats.itemcount = w.new_size], w.new_size)
    IN  Count(setOperationsAndComputeWeightDelta(t, _updates, _batch_type))

size(stats) == stats.itemcount
empty(stats) == size(stats) = 0
height(root) == IF IsNull(root) THEN 0 ELSE root.level

-----------------------------------------------------------------------------
(* Pareto minima (serial traversal)                                        *)

\* numeric_limits<weight_type>::min() and ::max() of the sentinel label.
\* weight_type is an unsigned type; the model scales it down to the range of
\* its weights, so that keys carry every value of the type, the largest included
WEIGHT_MIN == 0
WEIGHT_MAX == MaxSecond
min_label == [first_weight |-> WEIGHT_MIN, second_weight |-> WEIGHT_MAX]

\* the test guarding both loops of find_pareto_minima
improves(cand, min) ==
    cand.second_weight < min.second_weight
    \/ (cand.first_weight = min.first_weight /\ cand.second_weight = min.second_weight)

RECURSIVE find_pareto_minima(_, _, _)
RECURSIVE fpm_leaf(_, _, _, _)
RECURSIVE fpm_leaf_fixed(_, _, _, _)
RECURSIVE fpm_inner(_, _, _, _)

\* the loop over a leaf that compares every key with the prefix it was given
fpm_leaf_fixed(leaf, i, min, minima) ==
    IF i >= leaf.slotuse THEN minima
    ELSE IF improves(leaf.slotkey[i + 1], min)
         THEN fpm_leaf_fixed(leaf, i + 1, min,
                             Append(minima, [type |-> DELETE, data |-> leaf.slotkey[i + 1]]))
         ELSE fpm_leaf_fixed(leaf, i + 1, min, minima)

fpm_leaf(leaf, i, min, minima) ==
    IF i >= leaf.slotuse THEN minima
    ELSE IF improves(leaf.slotkey[i + 1], min)
         THEN fpm_leaf(leaf, i + 1, MinKeyOf(leaf.slotkey[i + 1]),
                       Append(minima, [type |-> DELETE, data |-> leaf.slotkey[i + 1]]))
         ELSE fpm_leaf(leaf, i + 1, min, minima)

fpm_inner(inner, i, min, minima) ==
    IF i >= inner.slotuse THEN minima
    ELSE IF improves(inner.slot[i + 1].minimum, min)
         THEN fpm_inner(inner, i + 1, inner.slot[i + 1].minimum,
                        find_pareto_minima(inner.slot[i + 1].childid, min, minima))
         ELSE fpm_inner(inner, i + 1, min, minima)

find_pareto_minima(node, prefix_minima, minima) ==
    IF isleafnode(node)
    THEN fpm_leaf(node, 0, prefix_minima, minima)
    ELSE fpm_inner(node, 0, prefix_minima, minima)

-----------------------------------------------------------------------------
(* Reading a tree                                                          *)

RECURSIVE TreeKeys(_)
RECURSIVE SlotKeys(_, _)
\* the keys of the subtrees of slots i.. in slot order
SlotKeys(inner, i) ==
    IF i > inner.slotuse \/ i > Len(inner.slot) THEN << >>
    ELSE TreeKeys(inner.slot[i].childid) \o SlotKeys(inner, i + 1)

\* the keys stored in the leaves below n, left to right
TreeKeys(n) ==
    IF IsNull(n) THEN << >>
    ELSE IF isleafnode(n)
         THEN [i \in 1..n.slotuse |-> IF i <= Len(n.slotkey) THEN n.slotkey[i] ELSE Uninit]
         ELSE SlotKeys(n, 1)

RECURSIVE NodeCount(_)
RECURSIVE SlotNodes(_, _)
\* the number of nodes below the slots 1..i of inner
SlotNodes(inner, i) ==
    IF i <= 0 THEN 0 ELSE SlotNodes(inner, i - 1) + NodeCount(inner.slot[i].childid)

\* the number of nodes of the tree below n, n included
NodeCount(n) ==
    IF IsNull(n) THEN 0
    ELSE IF isleafnode(n) THEN 1 ELSE 1 + SlotNodes(n, n.slotuse)

RECURSIVE AtAddresses(_, _)
\* the tree below n, its nodes at the addresses base, base + 1, ... in the
\* order of a walk from left to right
AtAddresses(n, base) ==
    IF IsNull(n) THEN n
    ELSE IF isleafnode(n)
         THEN [level |-> 0, slotuse |-> n.slotuse, slotkey |-> n.slotkey, id |-> base]
         ELSE [level |-> n.level, slotuse |-> n.slotuse,
               slot |-> [i \in 1..Len(n.slot) |->
                           IF i <= n.slotuse
                           THEN [n.slot[i] EXCEPT
                                     !.childid = AtAddresses(@, base + 1 + SlotNodes(n, i - 1))]
                           ELSE n.slot[i]],
               id |-> base]

RECURSIVE Content(_)
\* the tree below n without the addresses of its nodes
Content(n) ==
    IF IsNull(n) THEN NULL
    ELSE IF isleafnode(n)
         THEN [level |-> 0, slotuse |-> n.slotuse, slotkey |-> n.slotkey]
         ELSE [level |-> n.level, slotuse |-> n.slotuse,
               slot |-> [i \in 1..Len(n.slot) |->
                           IF i <= n.slotuse
                           THEN [n.slot[i] EXCEPT !.childid = Content(@)]
                           ELSE n.slot[i]]]

\* the memory after a call that left the members t and the root r:
\*   double_free : an address was freed that was not live
\*   dangling    : the root or the spare leaf reaches a freed address
\*   leaked      : a live address is reached neither by the root nor as spare leaf
\*   shared      : two slots (or a slot and the spare leaf) hold the same address
HeapAfter(t, r) ==
    LET a == << t.spare_leaf.id >> \o Addresses(r)
    IN  [double_free |-> t.double_free,
         dangling |-> ~(SeqRange(a) \subseteq t.live),
         leaked |-> ~(t.live \subseteq SeqRange(a)),
         shared |-> Cardinality(SeqRange(a)) # Len(a)]

\* the memory of a tree nothing went wrong with
HeapSound == [double_free |-> FALSE, dangling |-> FALSE, leaked |-> FALSE, shared |-> FALSE]

\* a set of keys as the sequence sorted by key_less
SortAll(S) ==
    LET rank == [k \in S |-> Cardinality({j \in S : key_less(j, k)})]
    IN  [i \in 1..Cardinality(S) |-> CHOOSE k \in S : rank[k] = i - 1]

KeySeq == SortAll(Keys)
NumKeys == Len(KeySeq)

\* the sorted sequence of a set of keys (the caller sorts its batch)
SortKeys(S) == SelectSeq(KeySeq, LAMBDA k : k \in S)

-----------------------------------------------------------------------------
(* verify(): the walk that asserts the invariants of the tree              *)

\* verify_node(n, minkey, maxkey, vstats) with root the tree's root: ok tells
\* whether every assertion held, the other fields are what the walk returns
RECURSIVE verify_node(_, _, _)
RECURSIVE verify_slots(_, _, _, _)
verify_slots(inner, the_root, slot, v) ==
    IF slot >= inner.slotuse \/ ~v.ok THEN v
    ELSE LET d == inner.slot[slot + 1]
             Checked(sub) ==
                 [ok |-> /\ v.ok /\ sub.ok
                         /\ d.childid.level + 1 = inner.level
                         /\ (inner = the_root \/ d.weight >= minweight(inner.level - 1))
                         /\ d.weight <= maxweight(inner.level - 1)
                         /\ d.weight = sub.vstats.itemcount - v.vstats.itemcount
                         /\ (slot = 0 \/ key_greaterequal(sub.minkey, inner.slot[slot].slotkey))
                         /\ key_equal(d.slotkey, sub.maxkey),
                  minkey |-> IF slot = 0 THEN sub.minkey ELSE v.minkey,
                  maxkey |-> v.maxkey,
                  vstats |-> sub.vstats]
         IN  verify_slots(inner, the_root, slot + 1,
                          Checked(verify_node(d.childid, the_root, v.vstats)))

verify_node(n, the_root, vstats) ==
    IF isleafnode(n)
    THEN [ok |-> /\ n.slotuse <= Len(n.slotkey)
                 /\ \A slot \in 1..(n.slotuse - 1) :
                      key_lessequal(n.slotkey[slot], n.slotkey[slot + 1])
                 /\ (n = the_root \/ n.slotuse >= minweight(n.level))
                 /\ n.slotuse <= maxweight(n.level),
          minkey |-> IF Len(n.slotkey) >= 1 THEN n.slotkey[1] ELSE Uninit,
          maxkey |-> IF n.slotuse >= 1 /\ n.slotuse <= Len(n.slotkey)
                     THEN n.slotkey[n.slotuse] ELSE Uninit,
          vstats |-> [vstats EXCEPT !.leaves = @ + 1, !.itemcount = @ + n.slotuse]]
    ELSE LET Routed(v) ==
                 [v EXCEPT !.maxkey = IF n.slotuse >= 1 THEN n.slot[n.slotuse].slotkey
                                      ELSE Uninit]
         IN  Routed(verify_slots(n, the_root, 0,
                 [ok |-> /\ n.slotuse >= 1 /\ n.slotuse <= Len(n.slot)
                         /\ \A slot \in 1..(n.slotuse - 1) :
                              key_lessequal(n.slot[slot].slotkey, n.slot[slot + 1].slotkey),
                  minkey |-> Uninit, maxkey |-> Uninit,
                  vstats |-> [vstats EXCEPT !.innernodes = @ + 1]]))

\* verify(): TRUE when the walk ends without a failed assertion
verify(the_root, st) ==
    IsNull(the_root)
    \/ LET Counted(v) == v.ok /\ v.vstats = st
       IN  Counted(verify_node(the_root, the_root,
                               [itemcount |-> 0, leaves |-> 0, innernodes |-> 0]))

-----------------------------------------------------------------------------
(* The parallel Pareto queue (ParallelBTreeParetoQueue): findParetoMinima  *)
(* hands the subtrees of the tree to FindParetMinTask tasks, which the     *)
(* workers of the task scheduler execute.                                  *)

\* The queue's graph has the nodes 0..MaxNodePar
MaxNodePar == 19
\* The labels of a staircase are carried by the nodes 0..MaxTwin
MaxTwin == 1
\* num_threads ranges over 1..MaxWorkers
MaxWorkers == 2

\* The level below which a task scans its subtree by itself.  A preprocessor
\* symbol a build may define (the header's default is 3); the model is the
\* build with -DPARETO_FIND_RECURSION_END_LEVEL=1, in which every inner node
\* of a tree is split into tasks.
PARETO_FIND_RECURSION_END_LEVEL == 1

numberOfNodes == MaxNodePar + 1

\* The labels the parallel queue is filled with
KeysPar == [node : 0..MaxNodePar, first_weight : 0..MaxFirst, second_weight : 0..MaxSecond]

\* FORALL_EDGES(graph, n, eid) graph.getEdge(eid): every node has an edge to
\* node 0 and an edge to the node after it
EdgesOf(n) ==
    << [target |-> 0, first_weight |-> 0, second_weight |-> 1],
       [target |-> (n + 1) % numberOfNodes, first_weight |-> 1, second_weight |-> 0] >>

\* createNewLabel that hands on the label of the minimum as it is
createNewLabel_unmoved(current_label, edge) ==
    [first_weight |-> current_label.first_weight,
     second_weight |-> current_label.second_weight]

\* weight_type is unsigned: the sums wrap around
createNewLabel(current_label, edge) ==
    [first_weight |-> (current_label.first_weight + edge.first_weight) % (WEIGHT_MAX + 1),
     second_weight |-> (current_label.second_weight + edge.second_weight) % (WEIGHT_MAX + 1)]

\* A task is [path, prefix_minima]: in_node is the node reached from the root
\* through the slots of path (0-based), and the task's parent is the
\* continuation of the task of the path without its last slot (the wait of
\* spawn_root_and_wait for the empty path)
NoTask == [path |-> << >>, prefix_minima |-> UninitMin]

RECURSIVE NodeAt(_, _)
NodeAt(n, path) ==
    IF path = << >> THEN n ELSE NodeAt(n.slot[Head(path) + 1].childid, Tail(path))

ParentOf(path) == SubSeq(path, 1, Len(path) - 1)

\* the task loop that hands every slot the running minimum of the slots
\* before it, its own minimum included
RECURSIVE task_loop_late(_, _, _, _, _)
task_loop_late(inner, i, min, path, tasks) ==
    IF i >= inner.slotuse THEN tasks
    ELSE IF improves(inner.slot[i + 1].minimum, min)
         THEN task_loop_late(inner, i + 1, inner.slot[i + 1].minimum, path,
                  Append(tasks, [path |-> Append(path, i),
                                 prefix_minima |-> inner.slot[i + 1].minimum]))
         ELSE task_loop_late(inner, i + 1, min, path, tasks)

\* The task loop of findParetoMinima and of FindParetMinTask::execute: one
\* task for every slot whose minimum improves on the running minimum
RECURSIVE task_loop(_, _, _, _, _)
task_loop(inner, i, min, path, tasks) ==
    IF i >= inner.slotuse THEN tasks
    ELSE IF improves(inner.slot[i + 1].minimum, min)
         THEN task_loop(inner, i + 1, inner.slot[i + 1].minimum, path,
                  Append(tasks, [path |-> Append(path, i), prefix_minima |-> min]))
         ELSE task_loop(inner, i + 1, min, path, tasks)

\* c.set_ref_count(task_count), and ref_count of the wait for the root tasks
set_ref_count(rc, c, task_count) ==
    [p \in DOMAIN rc \cup {c} |-> IF p = c THEN task_count ELSE rc[p]]

\* task_done in which a continuation that finishes does not count as a
\* finished child of its own parent
task_done_shallow(rc, c) == [rc EXCEPT ![c] = IF @ > 0 THEN @ - 1 ELSE 0]

\* A task whose parent is c finishes: the reference count of c drops, and
\* when it reaches 0 the scheduler runs c, an empty_task, which finishes in
\* its turn
RECURSIVE task_done(_, _)
task_done(rc, c) ==
    IF rc[c] > 1 \/ c = << >>
    THEN [rc EXCEPT ![c] = @ - 1]
    ELSE task_done([rc EXCEPT ![c] = 0], ParentOf(c))

\* F(x), x being evaluated once however often F refers to it
Bind(x, F(_)) == CHOOSE r \in {F(v) : v \in {x}} : TRUE

\* derive_candidate that takes the cells of a target to start at the target's
\* number
derive_candidate_unstrided(q, w, n, min, edge) ==
    LET target == edge.target
        Push(q1) ==
            [q1 EXCEPT !.local_candidates[target] = Append(@, createNewLabel(min, edge))]
        Register(position, cell) ==
            [q EXCEPT !.candidate_bufferlist_counter[target] = @ + 1,
                      !.candidate_bufferlist =
                          IF cell \in DOMAIN @ THEN [@ EXCEPT ![cell] = w] ELSE @,
                      !.locally_affected_nodes =
                          IF position = 0 THEN Append(@, target) ELSE @,
                      !.fault = @ \/ position >= n]
    IN  IF q.local_candidates[target] = << >>
        THEN Push(Register(q.candidate_bufferlist_counter[target],
                           target + q.candidate_bufferlist_counter[target]))
        ELSE Push(q)

\* derive_candidate in which every worker that holds candidates for a target
\* takes itself to be responsible for it
derive_candidate_all(q, w, n, min, edge) ==
    LET target == edge.target
        Push(q1) ==
            [q1 EXCEPT !.local_candidates[target] = Append(@, createNewLabel(min, edge))]
        Register(position, cell) ==
            [q EXCEPT !.candidate_bufferlist_counter[target] = @ + 1,
                      !.candidate_bufferlist =
                          IF cell \in DOMAIN @ THEN [@ EXCEPT ![cell] = w] ELSE @,
                      !.locally_affected_nodes = Append(@, target),
                      !.fault = @ \/ position >= n]
    IN  IF q.local_candidates[target] = << >>
        THEN Push(Register(q.candidate_bufferlist_counter[target],
                           target * n + q.candidate_bufferlist_counter[target]))
        ELSE Push(q)

\* derive_candidate that claims a cell of the target with every candidate it
\* pushes, whether or not its buffer for the target is empty
derive_candidate_reclaiming(q, w, n, min, edge) ==
    LET target == edge.target
        Push(q1) ==
            [q1 EXCEPT !.local_candidates[target] = Append(@, createNewLabel(min, edge))]
        Register(position, cell) ==
            [q EXCEPT !.candidate_bufferlist_counter[target] = @ + 1,
                      !.candidate_bufferlist =
                          IF cell \in DOMAIN @ THEN [@ EXCEPT ![cell] = w] ELSE @,
                      !.locally_affected_nodes =
                          IF position = 0 THEN Append(@, target) ELSE @,
                      !.fault = @ \/ position >= n]
    IN  Push(Register(q.candidate_bufferlist_counter[target],
                      target * n + q.candidate_bufferlist_counter[target]))

\* The body of FORALL_EDGES in findParetoMinAndDistribute, run by worker w;
\* q = [local_updates, local_candidates, locally_affected_nodes,
\*      candidate_bufferlist_counter, candidate_bufferlist, fault]
derive_candidate(q, w, n, min, edge) ==
    LET target == edge.target
        Push(q1) ==
            [q1 EXCEPT !.local_candidates[target] = Append(@, createNewLabel(min, edge))]
        \* position = candidate_bufferlist_counter[target].fetch_and_increment()
        Register(position, cell) ==
            [q EXCEPT !.candidate_bufferlist_counter[target] = @ + 1,
                      !.candidate_bufferlist =
                          IF cell \in DOMAIN @ THEN [@ EXCEPT ![cell] = w] ELSE @,
                      !.locally_affected_nodes =
                          IF position = 0 THEN Append(@, target) ELSE @,
                      !.fault = @ \/ position >= n]
    IN  IF q.local_candidates[target] = << >>
        THEN Push(Register(q.candidate_bufferlist_counter[target],
                           target * n + q.candidate_bufferlist_counter[target]))
        ELSE Push(q)

RECURSIVE derive_candidates(_, _, _, _, _, _)
derive_candidates(q, w, n, min, edges, e) ==
    IF e > Len(edges) \/ q.fault THEN q
    ELSE Bind(derive_candidate(q, w, n, min, edges[e]),
              LAMBDA q1 : derive_candidates(q1, w, n, min, edges, e + 1))

\* for (const data_type& min : minima) { schedule the deletion; derive candidates }
RECURSIVE distribute_minima(_, _, _, _, _)
distribute_minima(q, w, n, found, i) ==
    IF i > Len(found) \/ q.fault THEN q
    ELSE Bind(derive_candidates(
                  [q EXCEPT !.local_updates =
                               Append(@, [type |-> DELETE, data |-> found[i].data])],
                  w, n, found[i].data, EdgesOf(found[i].data.node), 1),
              LAMBDA q1 : distribute_minima(q1, w, n, found, i + 1))

\* findParetoMinAndDistribute run by worker w of n.  tls_minima.local() is
\* empty when the call starts and is cleared before it returns.  The queue's
\* base class is the tree of datastructures/BTree.hpp; its find_pareto_minima
\* is taken to be the one of the sequential tree, whose output carries the
\* minima in the data of its operations
findParetoMinAndDistribute(q, w, n, in_node, prefix_minima) ==
    Bind(find_pareto_minima(in_node, prefix_minima, << >>),
         LAMBDA found : distribute_minima(q, w, n, found, 1))

-----------------------------------------------------------------------------
(* The state machine                                                       *)

VARIABLES
    root,       \* the tree's root node, NULL when the tree is empty
    stats,      \* tree_stats: itemcount, leaves, innernodes
    fault,      \* an assertion failed or memory was misused in some call
    lastop,     \* the operation that ran last
    paths,      \* the branches the last call went through and the batch type it
                \* was given, if it was apply_updates
    minima,     \* the caller's output vector of the last find_pareto_minima
    ref_keys,   \* the keys before the last apply_updates, plus the keys
                \* it inserted, minus the keys it deleted
    ref_size,   \* size() before the last apply_updates, plus the number of
                \* its INSERTs, minus the number of its DELETEs
    heap,       \* what the last call did to the memory: see HeapAfter
    call,       \* the last call made on a tree of integer keys: its name, the
                \* name of the call before it, the root level, size() and the
                \* root's slotuse before it, the INSERTs and DELETEs of its batch
    seen,       \* what was observed of a member function run on its own: its
                \* name (op), its arguments and what it returned or wrote
    num_threads,                  \* the queue's num_threads
    pc,                           \* where the caller of findParetoMinima is:
                                  \* "idle", "waiting" (in spawn_root_and_wait), "done"
    pool,                         \* the tasks spawned and not yet taken by a worker
    running,                      \* the task each worker is executing, if any
    ref_count,                    \* the reference count of each continuation, and
                                  \* of the wait for the root tasks
    tls_local_updates,            \* per worker: the operations it scheduled
    tls_candidates,               \* per worker and graph node: the candidate labels
    tls_affected_nodes,           \* per worker: the nodes it is responsible for
    candidate_bufferlist_counter, \* per graph node: workers holding candidates
    candidate_bufferlist          \* cell node * num_threads + position: the worker
                                  \* whose candidate vector the cell points to, 0 if
                                  \* the cell was never written

parvars == << num_threads, pc, pool, running, ref_count, tls_local_updates, tls_candidates,
              tls_affected_nodes, candidate_bufferlist_counter, candidate_bufferlist >>

vars == << root, stats, fault, lastop, paths, minima, ref_keys, ref_size, heap, call, seen, parvars >>

\* no scenario call was made
NoCall == [name |-> "none", after |-> "none", level |-> 0, size |-> 0, slotuse |-> 0, inserts |-> 0, deletes |-> 0]

\* no member function was run on its own
NoneSeen == [op |-> "none"]

\* The queue after its constructor ran with _num_threads = n
QueueInit(n) ==
    /\ num_threads = n
    /\ pc = "idle"
    /\ pool = {}
    /\ running = [w \in 1..n |-> NoTask]
    /\ ref_count = [p \in {} |-> 0]
    /\ tls_local_updates = [w \in 1..n |-> << >>]
    /\ tls_candidates = [w \in 1..n |-> [v \in 0..(numberOfNodes - 1) |-> << >>]]
    /\ tls_affected_nodes = [w \in 1..n |-> << >>]
    /\ candidate_bufferlist_counter = [v \in 0..(numberOfNodes - 1) |-> 0]
    /\ candidate_bufferlist = [cell \in 0..(numberOfNodes * n - 1) |-> 0]

Init ==
    /\ root = NULL
    /\ stats = [itemcount |-> 0, leaves |-> 0, innernodes |-> 0]
    /\ fault = FALSE
    /\ lastop = "new"
    /\ paths = {}
    /\ minima = << >>
    /\ ref_keys = {}
    /\ ref_size = 0
    /\ call = NoCall
    /\ seen = NoneSeen
    /\ heap = HeapSound
    /\ QueueInit(1)

\* the members of the tree object at the start of a call, st being its stats
MembersOf(st) ==
    [updates |-> << >>, batch_type |-> INSERTS_AND_DELETES, weightdelta |-> << 0 >>,
     leaves |-> << >>, stats |-> st, spare_leaf |-> EmptyLeaf(SpareId), paths |-> {},
     next_id |-> SpareId + 1, live |-> {SpareId}, double_free |-> FALSE,
     noting |-> FALSE, log |-> {},
     fault |-> FALSE]

\* the root with its nodes at the addresses SpareId + 1, SpareId + 2, ...
Root == AtAddresses(root, SpareId + 1)

Members ==
    [MembersOf(stats) EXCEPT !.next_id = SpareId + 1 + NodeCount(root),
                             !.live = SpareId..(SpareId + NodeCount(root))]

\* The batch that touches the keys of T: DELETE for a key in the tree, INSERT
\* for a key that is not, sorted by key
BatchOf(T) ==
    LET present == SeqRange(TreeKeys(root))
        q == SortKeys(T)
    IN  [i \in 1..Len(q) |->
            [type |-> IF q[i] \in present THEN DELETE ELSE INSERT, data |-> q[i]]]

Inserted(b) == {b[i].data : i \in {j \in 1..Len(b) : b[j].type = INSERT}}
Deleted(b) == {b[i].data : i \in {j \in 1..Len(b) : b[j].type = DELETE}}

NumOps(b, type) == Cardinality({i \in 1..Len(b) : b[i].type = type})

TypeName(bt) ==
    IF bt = INSERTS_ONLY THEN "INSERTS_ONLY"
    ELSE IF bt = DELETES_ONLY THEN "DELETES_ONLY" ELSE "INSERTS_AND_DELETES"

\* the state after apply_updates(b, bt) returned r
Applied(b, bt, r) ==
    /\ root' = Content(r.root)
    /\ heap' = HeapAfter(r.t, r.root)
    /\ stats' = r.t.stats
    /\ fault' = (fault \/ r.t.fault)
    /\ lastop' = "apply_updates"
    /\ paths' = r.t.paths \cup {TypeName(bt)}
    /\ minima' = << >>
    /\ ref_keys' = (SeqRange(TreeKeys(root)) \cup Inserted(b)) \ Deleted(b)
    /\ ref_size' = size(stats) + NumOps(b, INSERT) - NumOps(b, DELETE)
    /\ UNCHANGED parvars

DoApplyUpdates(b, bt) ==
    \E r \in {apply_updates(Members, Root, b, bt)} :
        Applied(b, bt, r) /\ UNCHANGED seen

\* apply_updates with any batch of at most MaxBatch operations, announced as
\* INSERTS_AND_DELETES
ApplyUpdates ==
    /\ ~fault
    /\ \E T \in {X \in SUBSET Keys : Cardinality(X) <= MaxBatch} :
         \E b \in {BatchOf(T)} : DoApplyUpdates(b, INSERTS_AND_DELETES)
    /\ UNCHANGED call

\* The key sets of the bulk batches: a prefix or a suffix of the universe in
\* key order, restricted to the absent keys (inserts), to the present keys
\* (deletes), or all of it (mixed)
BulkSets ==
    LET present == SeqRange(TreeKeys(root))
        R(lo, hi) == {KeySeq[i] : i \in lo..hi}
        Ranges == {R(1, hi) : hi \in 1..NumKeys} \cup {R(lo, NumKeys) : lo \in 1..NumKeys}
    IN  {T \in Ranges \cup {X \ present : X \in Ranges} \cup {X \cap present : X \in Ranges} :
           Cardinality(T) > MaxBatch}

\* the batch type of batch b that says most about it
NarrowType(b) ==
    IF Deleted(b) = {} THEN INSERTS_ONLY
    ELSE IF Inserted(b) = {} THEN DELETES_ONLY ELSE INSERTS_AND_DELETES

\* apply_updates with a bulk batch, announced by its narrowest type
ApplyBulk ==
    /\ ~fault
    /\ \E T \in BulkSets :
         \E b \in {BatchOf(T)} : DoApplyUpdates(b, NarrowType(b))
    /\ UNCHANGED call

\* find_pareto_minima(min_label, minima) on a non-empty tree, as the Pareto
\* queue calls it
FindParetoMinima ==
    /\ ~fault
    /\ ~IsNull(root)
    /\ minima' = find_pareto_minima(root, min_label, << >>)
    /\ lastop' = "find_pareto_minima"
    /\ paths' = {}
    /\ UNCHANGED << call, seen, heap, root, stats, fault, ref_keys, ref_size, parvars >>

\* The tree as the Pareto queue drives it
Next == ApplyUpdates \/ ApplyBulk \/ FindParetoMinima

Spec == Init /\ [][Next]_vars

-----------------------------------------------------------------------------
(* The parallel findParetoMinima                                           *)

\* The trees the queue is searched on hold the labels on and above a
\* staircase c (c[f] is the smallest second_weight present with first_weight
\* f): the labels on the staircase on the nodes 0..g, those above it on the
\* nodes 0..h
StaircaseSets ==
    {c \in [0..MaxFirst -> 0..MaxSecond] : \A f \in 1..MaxFirst : c[f] <= c[f - 1]}

Populations ==
    {[g |-> 0, h |-> 0], [g |-> MaxTwin, h |-> MaxNodePar \div 2],
     [g |-> MaxTwin, h |-> MaxNodePar]}

QueueKeys(c, p) ==
    {k \in KeysPar :
        /\ k.second_weight >= c[k.first_weight]
        /\ k.node <= (IF k.second_weight = c[k.first_weight] THEN p.g ELSE p.h)}

InsertAll(q) == [i \in 1..Len(q) |-> [type |-> INSERT, data |-> q[i]]]

InitPar ==
    \E c \in StaircaseSets, p \in Populations :
      \E r \in {apply_updates(MembersOf([itemcount |-> 0, leaves |-> 0, innernodes |-> 0]),
                              NULL, InsertAll(SortAll(QueueKeys(c, p))), INSERTS_ONLY)} :
        /\ root = Content(r.root)
        /\ stats = r.t.stats
        /\ fault = r.t.fault
        /\ lastop = "apply_updates"
        /\ paths = {}
        /\ minima = << >>
        /\ ref_keys = QueueKeys(c, p)
        /\ ref_size = Cardinality(QueueKeys(c, p))
        /\ call = NoCall
        /\ seen = NoneSeen
        /\ heap = HeapSound
        /\ \E n \in 1..MaxWorkers : QueueInit(n)

\* the state findParetoMinAndDistribute works on when worker w calls it
Local(w) ==
    [local_updates |-> tls_local_updates[w],
     local_candidates |-> tls_candidates[w],
     locally_affected_nodes |-> tls_affected_nodes[w],
     candidate_bufferlist_counter |-> candidate_bufferlist_counter,
     candidate_bufferlist |-> candidate_bufferlist,
     fault |-> FALSE]

Distributed(w, q) ==
    /\ tls_local_updates' = [tls_local_updates EXCEPT ![w] = q.local_updates]
    /\ tls_candidates' = [tls_candidates EXCEPT ![w] = q.local_candidates]
    /\ tls_affected_nodes' = [tls_affected_nodes EXCEPT ![w] = q.locally_affected_nodes]
    /\ candidate_bufferlist_counter' = q.candidate_bufferlist_counter
    /\ candidate_bufferlist' = q.candidate_bufferlist
    /\ fault' = (fault \/ q.fault)

\* findParetoMinima on a tree below the recursion end level: the calling
\* thread (worker 1) scans the tree by itself
FindSerial ==
    /\ ~fault /\ pc = "idle" /\ ~IsNull(root)
    /\ root.level < PARETO_FIND_RECURSION_END_LEVEL
    /\ \E q \in {findParetoMinAndDistribute(Local(1), 1, num_threads, root, min_label)} :
         Distributed(1, q)
    /\ pc' = "done"
    /\ lastop' = "findParetoMinima"
    /\ paths' = {"serial"}
    /\ UNCHANGED << call, seen, heap, root, stats, minima, ref_keys, ref_size, num_threads, pool, running,
                    ref_count >>

\* findParetoMinima on a higher tree: one root task per slot of the root that
\* qualifies, then spawn_root_and_wait
FindRootTasks ==
    /\ ~fault /\ pc = "idle" /\ ~IsNull(root)
    /\ root.level >= PARETO_FIND_RECURSION_END_LEVEL
    /\ \E root_tasks \in {task_loop(root, 0, min_label, << >>, << >>)} :
         /\ pool' = SeqRange(root_tasks)
         /\ ref_count' = set_ref_count(ref_count, << >>, Len(root_tasks))
         /\ seen' = [op |-> "findParetoMinima", path |-> << >>,
                     prefix_minima |-> min_label, tasks |-> root_tasks]
    /\ pc' = "waiting"
    /\ lastop' = "findParetoMinima"
    /\ paths' = {"root_tasks"}
    /\ UNCHANGED << call, heap, root, stats, fault, minima, ref_keys, ref_size, num_threads, running,
                    tls_local_updates, tls_candidates, tls_affected_nodes,
                    candidate_bufferlist_counter, candidate_bufferlist >>

\* An idle worker takes any of the spawned tasks (its own or a stolen one)
TakeTask(w) ==
    /\ ~fault /\ pc = "waiting" /\ running[w] = NoTask
    /\ \E t \in pool :
         /\ running' = [running EXCEPT ![w] = t]
         /\ pool' = pool \ {t}
    /\ UNCHANGED << call, seen, heap, root, stats, fault, lastop, paths, minima, ref_keys, ref_size,
                    num_threads, pc, ref_count, tls_local_updates, tls_candidates,
                    tls_affected_nodes, candidate_bufferlist_counter, candidate_bufferlist >>

\* FindParetMinTask::execute on a node below the recursion end level
ExecuteScan(w) ==
    /\ ~fault /\ pc = "waiting" /\ running[w] # NoTask
    /\ \E in_node \in {NodeAt(root, running[w].path)} :
         /\ in_node.level < PARETO_FIND_RECURSION_END_LEVEL
         /\ \E q \in {findParetoMinAndDistribute(Local(w), w, num_threads, in_node,
                                                 running[w].prefix_minima)} :
              Distributed(w, q)
    /\ ref_count' = task_done(ref_count, ParentOf(running[w].path))
    /\ running' = [running EXCEPT ![w] = NoTask]
    /\ paths' = paths \cup {"scan"}
    /\ UNCHANGED << call, seen, heap, root, stats, lastop, minima, ref_keys, ref_size, num_threads, pc, pool >>

\* FindParetMinTask::execute on a higher node: one child task per slot that
\* qualifies, all of them children of a continuation; the first child is
\* returned to the scheduler, which runs it next on the same worker, the
\* others are spawned.  With no child there is no task to return
ExecuteSplit(w) ==
    /\ ~fault /\ pc = "waiting" /\ running[w] # NoTask
    /\ \E in_node \in {NodeAt(root, running[w].path)} :
         /\ in_node.level >= PARETO_FIND_RECURSION_END_LEVEL
         /\ \E tasks \in {task_loop(in_node, 0, running[w].prefix_minima,
                                    running[w].path, << >>)} :
              /\ ref_count' = set_ref_count(ref_count, running[w].path, Len(tasks))
              /\ fault' = (tasks = << >>)
              /\ running' = [running EXCEPT ![w] = IF tasks = << >> THEN NoTask ELSE Head(tasks)]
              /\ pool' = pool \cup (IF tasks = << >> THEN {} ELSE SeqRange(Tail(tasks)))
              /\ seen' = [op |-> "execute", path |-> running[w].path,
                          prefix_minima |-> running[w].prefix_minima, tasks |-> tasks]
    /\ paths' = paths \cup {"split"}
    /\ UNCHANGED << call, heap, root, stats, lastop, minima, ref_keys, ref_size, num_threads, pc,
                    tls_local_updates, tls_candidates, tls_affected_nodes,
                    candidate_bufferlist_counter, candidate_bufferlist >>

\* spawn_root_and_wait returns when every root task is done; root_tasks.clear()
ReturnFromWait ==
    /\ ~fault /\ pc = "waiting" /\ ref_count[<< >>] = 0
    /\ pc' = "done"
    /\ UNCHANGED << call, seen, heap, root, stats, fault, lastop, paths, minima, ref_keys, ref_size,
                    num_threads, pool, running, ref_count, tls_local_updates,
                    tls_candidates, tls_affected_nodes, candidate_bufferlist_counter,
                    candidate_bufferlist >>

NextPar ==
    \/ FindSerial
    \/ FindRootTasks
    \/ \E w \in 1..num_threads : TakeTask(w)
    \/ \E w \in 1..num_threads : ExecuteScan(w)
    \/ \E w \in 1..num_threads : ExecuteSplit(w)
    \/ ReturnFromWait

SpecPar == InitPar /\ [][NextPar]_vars

\* what worker w of the scheduler does: it takes a task when it is idle and
\* executes the task it has
WorkerStep(w) ==
    w <= num_threads /\ (TakeTask(w) \/ ExecuteScan(w) \/ ExecuteSplit(w))

\* The scheduler is fair to its workers: a worker that can go on does go on,
\* and the thread blocked in spawn_root_and_wait goes on once the wait is over
SpecParFair ==
    /\ SpecPar
    /\ \A w \in 1..MaxWorkers : WF_vars(WorkerStep(w))
    /\ WF_vars(ReturnFromWait)

-----------------------------------------------------------------------------
(* The scan of a task, one edge at a time: the workers interleave between   *)
(* the fetch_and_increment operations on the counters they share            *)

\* worker w is inside findParetoMinAndDistribute: its task record also holds
\* found (tls_minima.local()), the index i of the minimum of the outer loop
\* and the index e of the edge of FORALL_EDGES, both counted from 1
Scanning(w) == running[w] # NoTask /\ "found" \in DOMAIN running[w]

\* FindParetMinTask::execute on a node below the recursion end level, up to
\* the return of find_pareto_minima
ScanBegin(w) ==
    /\ ~fault /\ pc = "waiting" /\ running[w] # NoTask /\ ~Scanning(w)
    /\ \E in_node \in {NodeAt(root, running[w].path)} :
         /\ in_node.level < PARETO_FIND_RECURSION_END_LEVEL
         /\ running' = [running EXCEPT ![w] =
                [path |-> running[w].path, prefix_minima |-> running[w].prefix_minima,
                 found |-> find_pareto_minima(in_node, running[w].prefix_minima, << >>),
                 i |-> 1, e |-> 1]]
    /\ UNCHANGED << call, seen, heap, root, stats, fault, lastop, paths, minima, ref_keys, ref_size,
                    num_threads, pc, pool, ref_count, tls_local_updates, tls_candidates,
                    tls_affected_nodes, candidate_bufferlist_counter, candidate_bufferlist >>

\* one pass through the body of FORALL_EDGES; the pass for the first edge of a
\* minimum comes after the push_back that schedules the minimum for deletion
ScanEdge(w) ==
    /\ ~fault /\ pc = "waiting" /\ Scanning(w)
    /\ \E s \in {running[w]} :
         /\ s.i <= Len(s.found)
         /\ \E min \in {s.found[s.i].data} :
              \E edges \in {EdgesOf(min.node)} :
                /\ \E q \in {derive_candidate(
                                 IF s.e = 1
                                 THEN [Local(w) EXCEPT !.local_updates =
                                           Append(@, [type |-> DELETE, data |-> min])]
                                 ELSE Local(w),
                                 w, num_threads, min, edges[s.e])} :
                     Distributed(w, q)
                /\ running' = [running EXCEPT ![w] =
                       IF s.e < Len(edges) THEN [s EXCEPT !.e = @ + 1]
                       ELSE [s EXCEPT !.i = @ + 1, !.e = 1]]
    /\ UNCHANGED << call, seen, heap, root, stats, lastop, paths, minima, ref_keys, ref_size,
                    num_threads, pc, pool, ref_count >>

\* minima.clear(); return NULL: the task is done
ScanEnd(w) ==
    /\ ~fault /\ pc = "waiting" /\ Scanning(w)
    /\ running[w].i > Len(running[w].found)
    /\ ref_count' = task_done(ref_count, ParentOf(running[w].path))
    /\ running' = [running EXCEPT ![w] = NoTask]
    /\ paths' = paths \cup {"scan"}
    /\ UNCHANGED << call, seen, heap, root, stats, fault, lastop, minima, ref_keys, ref_size,
                    num_threads, pc, pool, tls_local_updates, tls_candidates,
                    tls_affected_nodes, candidate_bufferlist_counter, candidate_bufferlist >>

NextCand ==
    \/ FindSerial
    \/ FindRootTasks
    \/ \E w \in 1..num_threads : TakeTask(w)
    \/ \E w \in 1..num_threads : ScanBegin(w)
    \/ \E w \in 1..num_threads : ScanEdge(w)
    \/ \E w \in 1..num_threads : ScanEnd(w)
    \/ \E w \in 1..num_threads : ExecuteSplit(w)
    \/ ReturnFromWait

SpecCand == InitPar /\ [][NextCand]_vars

-----------------------------------------------------------------------------
(* Growing and shrinking a tree of integer keys                            *)

\* The integer key i, as a label ordered like the integers
ScenarioKey(i) == [node |-> 0, first_weight |-> i, second_weight |-> 0]

\* the keys lo..hi in order
KeyRange(lo, hi) == [i \in 1..(hi - lo + 1) |-> ScenarioKey(lo + i - 1)]

DeleteAll(q) == [i \in 1..Len(q) |-> [type |-> DELETE, data |-> q[i]]]

\* the keys 1..1000 of the bulk build
BulkBuildKeys == KeyRange(1, 1000)

\* the smallest and the largest integer in a non-empty tree
FirstKey == TreeKeys(root)[1].first_weight
LastKey == TreeKeys(root)[size(stats)].first_weight

\* apply_updates(b, bt) called on the tree; call records what the caller saw
\* before the call and handed in
GrowApply(b, bt, name) ==
    /\ DoApplyUpdates(b, bt)
    /\ call' = [name |-> name, after |-> call.name, level |-> height(root),
                size |-> size(stats), slotuse |-> root.slotuse,
                inserts |-> NumOps(b, INSERT), deletes |-> NumOps(b, DELETE)]

\* a batch of INSERTs for the keys 1..n applied to the empty tree
Build ==
    /\ ~fault /\ IsNull(root)
    /\ \E n \in 1..MaxGrow :
         GrowApply(InsertAll(KeyRange(1, n)), INSERTS_ONLY, "build")

\* the batch of INSERTs for the keys 1..1000 applied to the empty tree
BulkBuild ==
    /\ ~fault /\ IsNull(root)
    /\ GrowApply(InsertAll(BulkBuildKeys), INSERTS_ONLY, "bulk_build")

\* one INSERT of the key after the largest one
AppendKey ==
    /\ ~fault /\ ~IsNull(root) /\ size(stats) < MaxGrow
    /\ GrowApply(InsertAll(KeyRange(LastKey + 1, LastKey + 1)), INSERTS_ONLY, "append")

\* DELETEs of the m largest keys, for m up to MaxCut
Truncate ==
    /\ ~fault /\ ~IsNull(root) /\ size(stats) <= MaxGrow
    /\ \E m \in 1..(IF size(stats) < MaxCut THEN size(stats) ELSE MaxCut) :
         GrowApply(DeleteAll(KeyRange(LastKey - m + 1, LastKey)), DELETES_ONLY, "truncate")

\* a batch of no net weight: DELETE of the smallest key, INSERT of the key
\* after the largest one
Slide ==
    /\ ~fault /\ ~IsNull(root) /\ size(stats) <= MaxGrow /\ FirstKey <= MaxSlide
    /\ GrowApply(DeleteAll(KeyRange(FirstKey, FirstKey))
                    \o InsertAll(KeyRange(LastKey + 1, LastKey + 1)),
                 INSERTS_AND_DELETES, "slide")

NextGrow == Build \/ BulkBuild \/ AppendKey \/ Truncate \/ Slide

SpecGrow == Init /\ [][NextGrow]_vars

-----------------------------------------------------------------------------
(* A small Pareto queue: six labels, every batch over them, and the search *)
(* for the minima                                                          *)

Label(n, f, s) == [node |-> n, first_weight |-> f, second_weight |-> s]

\* the label the queue is initialised with
SmallFirst == Label(1, 0, 0)

\* the labels inserted after it
SmallRest == {Label(2, 1, 5), Label(3, 2, 4), Label(4, 3, 3), Label(5, 4, 6), Label(6, 5, 2)}

SmallKeys == {SmallFirst} \cup SmallRest

\* the sentinel of a queue of these labels: numeric_limits<weight_type>::max()
\* lies above every weight they carry
small_min_label ==
    [first_weight |-> WEIGHT_MIN,
     second_weight |-> 1 + CHOOSE w \in {k.second_weight : k \in SmallKeys} :
                             \A k \in SmallKeys : k.second_weight <= w]

\* the batch that touches the labels of T: DELETE for a label in the queue,
\* INSERT for a label that is not, sorted by key
SmallBatch(T) ==
    LET present == SeqRange(TreeKeys(root))
        q == SortAll(T)
    IN  [i \in 1..Len(q) |->
            [type |-> IF q[i] \in present THEN DELETE ELSE INSERT, data |-> q[i]]]

SmallApply(b, name) ==
    /\ DoApplyUpdates(b, NarrowType(b))
    /\ call' = [name |-> name, after |-> call.name, level |-> height(root),
                size |-> size(stats), slotuse |-> root.slotuse,
                inserts |-> NumOps(b, INSERT), deletes |-> NumOps(b, DELETE)]

\* init(data)
SmallInit ==
    /\ ~fault /\ lastop = "new"
    /\ SmallApply(SmallBatch({SmallFirst}), "init")

\* applyUpdates(updates, update_count)
SmallUpdate ==
    /\ ~fault /\ lastop # "new"
    /\ \E T \in SUBSET SmallKeys \ {{}} : SmallApply(SmallBatch(T), "applyUpdates")

\* find_pareto_minima with the sentinel as prefix
SmallFind ==
    /\ ~fault /\ ~IsNull(root)
    /\ minima' = find_pareto_minima(root, small_min_label, << >>)
    /\ lastop' = "find_pareto_minima"
    /\ paths' = {}
    /\ UNCHANGED << call, seen, heap, root, stats, fault, ref_keys, ref_size, parvars >>

NextSmall == SmallInit \/ SmallUpdate \/ SmallFind

SpecSmall == Init /\ [][NextSmall]_vars

-----------------------------------------------------------------------------
(* Batches that break the contract of apply_updates                        *)

\* a batch of one operation
OneOp(type, k) == << [type |-> type, data |-> k] >>

\* the batches that break the contract on the tree as it is, by what they
\* break: a DELETE of a key that is not in the tree, an INSERT of a key that
\* is, and two operations on neighbouring keys, each of them allowed, the
\* larger key first
ViolatingBatches(kind) ==
    LET present == SeqRange(TreeKeys(root))
    IN  IF kind = "delete_absent" THEN {OneOp(DELETE, k) : k \in Keys \ present}
        ELSE IF kind = "insert_present" THEN {OneOp(INSERT, k) : k \in present}
        ELSE {<< BatchOf({KeySeq[i + 1]})[1], BatchOf({KeySeq[i]})[1] >> : i \in 1..(NumKeys - 1)}

\* no batch broke the contract so far
ContractKept == call.name = "none"

\* apply_updates with a batch that breaks the contract.  What the tree does
\* after such a call is not part of any contract: the tree is not used again.
ApplyViolating ==
    /\ ContractKept /\ ~fault /\ ~IsNull(root)
    /\ \E kind \in {"delete_absent", "insert_present", "unsorted"} :
         \E b \in ViolatingBatches(kind) :
            /\ DoApplyUpdates(b, INSERTS_AND_DELETES)
            /\ call' = [name |-> kind, after |-> call.name, level |-> height(root),
                        size |-> size(stats), slotuse |-> root.slotuse,
                        inserts |-> NumOps(b, INSERT), deletes |-> NumOps(b, DELETE)]

\* apply_updates with a batch that keeps the contract
ApplyKeeping == ContractKept /\ (ApplyUpdates \/ ApplyBulk)

NextContract == ApplyKeeping \/ ApplyViolating

SpecContract == Init /\ [][NextContract]_vars

-----------------------------------------------------------------------------
(* Batches spread over a tree of integer keys of height 1 or 2, with the   *)
(* steps of apply_updates noted: the tree holds even keys, so that a key   *)
(* can be inserted between any two of them                                 *)

\* the sizes of the trees the batches are applied to
SpreadSizes == {4, 12, 41, MaxSpread}

\* at most two calls are made on a tree once it is built
Observable ==
    /\ ~fault /\ ~IsNull(root)
    /\ call.name # "none" /\ call.after \in {"none", "spread_build"}

\* apply_updates(b, bt) with its steps noted in seen
Observe(b, bt, name) ==
    /\ \E r \in {apply_updates([Members EXCEPT !.noting = TRUE], Root, b, bt)} :
         /\ Applied(b, bt, r)
         /\ seen' = [op |-> "apply_updates", updates |-> b, log |-> r.t.log,
                     live |-> r.t.live, reached |-> SeqRange(Addresses(r.root)),
                     root |-> r.root]
    /\ call' = [name |-> name, after |-> call.name, level |-> height(root),
                size |-> size(stats), slotuse |-> root.slotuse,
                inserts |-> NumOps(b, INSERT), deletes |-> NumOps(b, DELETE)]

\* the batch of INSERTs for the keys 2, 4, ..., 2 * n applied to the empty tree
SpreadBuild ==
    /\ ~fault /\ IsNull(root) /\ call.name = "none"
    /\ \E n \in SpreadSizes :
         Observe(InsertAll([i \in 1..n |-> ScenarioKey(2 * i)]), INSERTS_ONLY, "spread_build")

\* the keys the scattered batches touch: the two ends of the key range of a
\* tree of 66 keys and the border between the two subtrees of its root
ProbeKeys == {ScenarioKey(k) : k \in {1, 2, 80, 81, 133}}

\* a batch on some of the probe keys: DELETE where the key is present, INSERT
\* where it is not
Toggle ==
    /\ Observable
    /\ \E T \in SUBSET ProbeKeys \ {{}} :
         \E b \in {SmallBatch(T)} :
             \E bt \in {NarrowType(b), INSERTS_AND_DELETES} : Observe(b, bt, "toggle")

\* where the runs of keys that Cut deletes and Fill inserts next to begin, and
\* how long they are
RunStarts == {1, 6, 36, 41}
RunLengths == {4, 5, 10}

\* DELETEs of m keys in a row, from the lo-th key of the tree on
Cut ==
    /\ Observable
    /\ \E lo \in RunStarts, len \in RunLengths :
        /\ lo + len - 1 <= size(stats)
        /\ Observe(DeleteAll(SubSeq(TreeKeys(root), lo, lo + len - 1)), DELETES_ONLY, "cut")

\* INSERTs of the absent keys that follow m keys in a row
Fill ==
    /\ Observable
    /\ \E lo \in RunStarts, len \in RunLengths :
        /\ lo + len - 1 <= size(stats)
        /\ \E q \in {SelectSeq([i \in 1..len |->
                                  ScenarioKey(TreeKeys(root)[lo + i - 1].first_weight + 1)],
                               LAMBDA k : k \notin SeqRange(TreeKeys(root)))} :
             /\ Len(q) > 0
             /\ Observe(InsertAll(q), INSERTS_ONLY, "fill")

NextSpread == SpreadBuild \/ Toggle \/ Cut \/ Fill

SpecSpread == Init /\ [][NextSpread]_vars

-----------------------------------------------------------------------------
(* The weight delta of a batch, computed on its own: by the sequential     *)
(* tree (setOperationsAndComputeWeightDelta, getWeightDelta) and by the    *)
(* parallel tree, whose prefix sum is a tbb::parallel_scan over the batch  *)

\* PrefixSum::operator()(r, Tag) over r = [i, end): the body's sum and the
\* out array after it
RECURSIVE PrefixSumBody(_, _, _, _, _, _)
PrefixSumBody(temp, out, in, i, end, is_final_scan) ==
    IF i < end
    THEN LET temp1 == temp + (IF in[i + 1].type = INSERT THEN 1 ELSE 0 - 1)
         IN  PrefixSumBody(temp1, IF is_final_scan THEN [out EXCEPT ![i + 2] = temp1] ELSE out,
                           in, i + 1, end, is_final_scan)
    ELSE [sum |-> temp, out |-> out]

\* PrefixSum::reverse_join(a) on a body whose sum is sum
reverse_join(sum, a) == a + sum

\* a cell of weightdelta the scan did not write: resize() keeps what the
\* vector held
Stale == MaxOps + 2

\* the batches: every sequence of at most MaxOps INSERTs and DELETEs.  The
\* tree holds the keys 2, 4, ..., 2 * MaxOps; operation i is the DELETE of key
\* 2 * i or the INSERT of key 2 * i - 1
OpBatches ==
    UNION {[1..n -> {INSERT, DELETE}] : n \in 0..MaxOps}

Batch(types) ==
    [i \in 1..Len(types) |->
        [type |-> types[i],
         data |-> ScenarioKey(IF types[i] = DELETE THEN 2 * i ELSE 2 * i - 1)]]

\* the elements of a set of integers in increasing order
Ascending(S) ==
    CHOOSE q \in [1..Cardinality(S) -> S] : \A i \in 1..(Cardinality(S) - 1) : q[i] < q[i + 1]

\* the batch types a caller may announce batch b with
TypesOf(b) ==
    {INSERTS_AND_DELETES} \cup (IF Deleted(b) = {} THEN {INSERTS_ONLY} ELSE {})
                         \cup (IF Inserted(b) = {} THEN {DELETES_ONLY} ELSE {})

InitDelta ==
    /\ \E r \in {apply_updates(MembersOf([itemcount |-> 0, leaves |-> 0, innernodes |-> 0]), NULL,
                                InsertAll([i \in 1..MaxOps |-> ScenarioKey(2 * i)]), INSERTS_ONLY)} :
         /\ root = Content(r.root)
         /\ stats = r.t.stats
         /\ fault = r.t.fault
    /\ lastop = "apply_updates"
    /\ paths = {}
    /\ minima = << >>
    /\ ref_keys = {ScenarioKey(2 * i) : i \in 1..MaxOps}
    /\ ref_size = MaxOps
    /\ call = NoCall
    /\ heap = HeapSound
    /\ QueueInit(1)
    /\ \E types \in OpBatches :
         \E bt \in TypesOf(Batch(types)) :
           seen = [op |-> "batch", updates |-> Batch(types), batch_type |-> bt]

\* the tree members after setOperationsAndComputeWeightDelta, as seen has them
SeenMembers ==
    [MembersOf(stats) EXCEPT !.updates = seen.updates, !.batch_type = seen.batch_type,
                             !.weightdelta = seen.weightdelta]

Unobserved == UNCHANGED << root, stats, fault, lastop, paths, minima, ref_keys, ref_size,
                           heap, call, parvars >>

\* setOperationsAndComputeWeightDelta(_updates, _batch_type) of the sequential tree
SetOperations ==
    /\ seen.op = "batch"
    /\ \E r \in {setOperationsAndComputeWeightDelta(MembersOf(stats), seen.updates, seen.batch_type)} :
         seen' = [op |-> "setOperations", updates |-> seen.updates, batch_type |-> seen.batch_type,
                  weightdelta |-> r.t.weightdelta, new_size |-> r.new_size,
                  upd_begin |-> 0, upd_end |-> 0, delta |-> 0]
    /\ Unobserved

\* getWeightDelta(upd_begin, upd_end) for a range of the batch
GetWeightDelta ==
    /\ seen.op \in {"setOperations", "getWeightDelta"}
    /\ \E i \in 0..Len(seen.updates) :
         \E j \in i..Len(seen.updates) :
           seen' = [seen EXCEPT !.op = "getWeightDelta", !.upd_begin = i, !.upd_end = j,
                                !.delta = getWeightDelta(SeenMembers, i, j)]
    /\ Unobserved

\* the ways parallel_scan may split blocked_range(0, n): the ends of the blocks
Splits(n) ==
    {Ascending(C \cup {n}) : C \in SUBSET (1..(n - 1))}

\* setOperationsAndComputeWeightDelta(_updates) of the parallel tree, up to the
\* call of parallel_scan, which splits the range into blocks
ScanSplit ==
    /\ seen.op = "batch" /\ seen.batch_type = INSERTS_AND_DELETES
    /\ \E ends \in (IF Len(seen.updates) = 0 THEN {<< >>} ELSE Splits(Len(seen.updates))) :
         seen' = [op |-> "parallel_scan", updates |-> seen.updates, ends |-> ends,
                  summary |-> [k \in 1..Len(ends) |-> [known |-> FALSE, sum |-> 0]],
                  scanned |-> {},
                  out |-> [i \in 1..(Len(seen.updates) + 1) |-> IF i = 1 THEN 0 ELSE Stale],
                  new_size |-> 0]
    /\ Unobserved

BlockBegin(k) == IF k = 1 THEN 0 ELSE seen.ends[k - 1]

\* the sum of the body that enters block k: the first body, or the bodies of
\* the blocks before it joined from the left
RECURSIVE JoinedSum(_)
JoinedSum(k) ==
    IF k = 0 THEN 0 ELSE reverse_join(seen.summary[k].sum, JoinedSum(k - 1))

\* a body split off the first one runs over block k before the blocks on its
\* left are summed up: the pre-scan
PreScan(k) ==
    /\ seen.op = "parallel_scan"
    /\ k \in 2..Len(seen.ends)
    /\ ~seen.summary[k].known /\ k \notin seen.scanned
    /\ \E b \in {PrefixSumBody(0, seen.out, seen.updates, BlockBegin(k), seen.ends[k], FALSE)} :
         seen' = [seen EXCEPT !.summary[k] = [known |-> TRUE, sum |-> b.sum], !.out = b.out]
    /\ Unobserved

\* the final scan of block k, by a body that holds the sum of everything on
\* the left of the block
FinalScan(k) ==
    /\ seen.op = "parallel_scan"
    /\ k \in 1..Len(seen.ends)
    /\ k \notin seen.scanned
    /\ \A j \in 1..(k - 1) : seen.summary[j].known
    /\ \E b \in {PrefixSumBody(JoinedSum(k - 1), seen.out, seen.updates,
                                BlockBegin(k), seen.ends[k], TRUE)} :
         seen' = [seen EXCEPT !.summary[k] = [known |-> TRUE, sum |-> b.sum - JoinedSum(k - 1)],
                              !.scanned = @ \cup {k}, !.out = b.out]
    /\ Unobserved

\* parallel_scan returns; size() + body.get_sum() is the new size
ScanReturn ==
    /\ seen.op = "parallel_scan"
    /\ seen.scanned = 1..Len(seen.ends)
    /\ seen' = [seen EXCEPT !.op = "scan_done",
                            !.new_size = size(stats) + JoinedSum(Len(seen.ends))]
    /\ Unobserved

NextDelta ==
    \/ SetOperations
    \/ GetWeightDelta
    \/ ScanSplit
    \/ \E k \in 1..MaxOps + 1 : PreScan(k)
    \/ \E k \in 1..MaxOps + 1 : FinalScan(k)
    \/ ScanReturn

SpecDelta == InitDelta /\ [][NextDelta]_vars

-----------------------------------------------------------------------------
(* Reading a tree for the properties                                       *)

\* the nodes of the tree below and including n
RECURSIVE SubNodes(_)
SubNodes(n) ==
    IF IsNull(n) THEN {}
    ELSE IF isleafnode(n) THEN {n}
    ELSE {n} \cup UNION {SubNodes(n.slot[i].childid) : i \in 1..n.slotuse}

Leaves(n) == {x \in SubNodes(n) : isleafnode(x)}
Inners(n) == {x \in SubNodes(n) : ~isleafnode(x)}

StrictlyIncreasing(q) == \A i \in 1..(Len(q) - 1) : key_less(q[i], q[i + 1])
NoDuplicates(q) == \A i, j \in 1..Len(q) : i # j => ~key_equal(q[i], q[j])

\* the largest key of a non-empty set
MaxKey(S) == CHOOSE k \in S : \A j \in S : ~key_less(k, j)

\* the label with the smallest second_weight of a non-empty set of keys, the
\* first one in key order when several keys carry it
SubtreeMin(S) ==
    MinKeyOf(CHOOSE k \in S : \A j \in S \ {k} :
                 k.second_weight < j.second_weight
                 \/ (k.second_weight = j.second_weight /\ key_less(k, j)))

RECURSIVE SumWeights(_, _)
SumWeights(inner, i) ==
    IF i > inner.slotuse THEN 0 ELSE inner.slot[i].weight + SumWeights(inner, i + 1)

\* a dominates b, on the labels of the keys
Dominates(a, b) ==
    /\ a.first_weight <= b.first_weight
    /\ a.second_weight <= b.second_weight
    /\ MinKeyOf(a) # MinKeyOf(b)

ParetoFront(S) == {k \in S : \A j \in S : ~Dominates(j, k)}

Emitted == {minima[i].data : i \in 1..Len(minima)}

\* No call trips an assertion or touches memory outside an object
NoFault == ~fault

\* the minima in the workers' buffers of scheduled deletions
ParallelMinima ==
    UNION {{tls_local_updates[w][i].data : i \in 1..Len(tls_local_updates[w])} :
              w \in 1..num_threads}

\* the minima the serial traversal of the tree emits
SerialMinima == {m.data : m \in SeqRange(find_pareto_minima(root, min_label, << >>))}

-----------------------------------------------------------------------------
(* Properties                                                              *)

\* C1: after every completed apply_updates with a valid batch, every leaf
\* holds its keys in strictly increasing order and no key occurs twice in
\* the tree.
C1_LeafKeysIncreasing ==
    /\ \A leaf \in Leaves(root) : StrictlyIncreasing(TreeKeys(leaf))
    /\ NoDuplicates(TreeKeys(root))

C3_Weights ==
    /\ \A n \in Inners(root) : \A i \in 1..n.slotuse :
         n.slot[i].weight = Len(TreeKeys(n.slot[i].childid))
    /\ size(stats) = IF IsNull(root) THEN 0
                     ELSE IF isleafnode(root) THEN root.slotuse ELSE SumWeights(root, 1)

\* C4: after every completed apply_updates, every node other than the root
\* has a weight between minweight and maxweight of its level.
C4_WeightBounds ==
    \A n \in Inners(root) : \A i \in 1..n.slotuse :
      LET c == n.slot[i].childid
          w == Len(TreeKeys(c))
      IN  minweight(c.level) <= w /\ w <= maxweight(c.level)

\* C5: after every completed apply_updates, the minimum of every inner slot
\* is the label with the smallest second_weight in the slot's subtree, the
\* first such key in key order on ties.
C5_SlotMinima ==
    \A n \in Inners(root) : \A i \in 1..n.slotuse :
      LET ks == SeqRange(TreeKeys(n.slot[i].childid))
      IN  ks # {} /\ n.slot[i].minimum = SubtreeMin(ks)

C7_Size == size(stats) = ref_size

\* C8: when a batch brings the key count to 0, apply_updates returns with
\* the root absent, size() = 0, empty(), height() = 0 and both node counters 0.
C8_EmptyAfterLastDelete ==
    (lastop = "apply_updates" /\ ref_keys = {}) =>
        /\ IsNull(root)
        /\ size(stats) = 0
        /\ empty(stats)
        /\ height(root) = 0
        /\ stats.leaves = 0
        /\ stats.innernodes = 0

\* C9: find_pareto_minima started with the sentinel emits exactly the keys of
\* the tree that no other key dominates, each of them once.
C9_ParetoMinima ==
    lastop = "find_pareto_minima" =>
        /\ Emitted = ParetoFront(SeqRange(TreeKeys(root)))
        /\ Len(minima) = Cardinality(Emitted)

\* C9, on trees none of whose keys carries the sentinel's second_weight
C9_ParetoMinimaBelowSentinel ==
    (lastop = "find_pareto_minima"
       /\ \A k \in SeqRange(TreeKeys(root)) : k.second_weight < min_label.second_weight) =>
        /\ Emitted = ParetoFront(SeqRange(TreeKeys(root)))
        /\ Len(minima) = Cardinality(Emitted)

\* C10: when the task-parallel findParetoMinima has returned, the minima in
\* the workers' buffers are, as a set, the minima the serial traversal of the
\* same tree emits, whatever the number of workers and whichever worker ran
\* which task in which order.
C10_ParallelEqualsSerial ==
    pc = "done" => ParallelMinima = SerialMinima

\* C12: on the queue holding (1,0,0), (2,1,5), (3,2,4), (4,3,3), (5,4,6) and
\* (6,5,2), find_pareto_minima with the sentinel prefix emits (1,0,0) and
\* nothing else; on the queue left when (1,0,0) is deleted it emits (2,1,5),
\* (3,2,4), (4,3,3) and (6,5,2), each once, and not (5,4,6).
C12_ParetoSmall ==
    lastop = "find_pareto_minima" =>
        /\ ref_keys = SmallKeys =>
             Emitted = {SmallFirst} /\ Len(minima) = 1
        /\ ref_keys = SmallRest =>
             /\ Emitted = SmallRest \ {Label(5, 4, 6)}
             /\ Len(minima) = 4

\* C15: a batch that violates the preconditions (a DELETE of a key that is
\* not in the tree, an INSERT of a key already present, or an unsorted batch)
\* makes apply_updates, compiled with its assertions, stop at a failed
\* assertion instead of returning with a modified tree.
C15_ViolationAsserts ==
    (lastop = "apply_updates" /\ ~ContractKept) => fault

TimesAffected(v) ==
    Cardinality({p \in (1..num_threads) \X (1..numberOfNodes) :
                    /\ p[2] <= Len(tls_affected_nodes[p[1]])
                    /\ tls_affected_nodes[p[1]][p[2]] = v})

\* some worker holds a candidate label for node v
HasCandidate(v) == \E w \in 1..num_threads : tls_candidates[w][v] # << >>

\* C18: when one findParetoMinima has returned (the counters of the targets
\* were 0 when it started), whatever way the workers interleaved, every
\* target node that received a candidate stands exactly once in exactly one
\* worker's affected-nodes list, and a target that received none in no list.
C18_AffectedExactlyOnce ==
    pc = "done" =>
        \A v \in 0..(numberOfNodes - 1) :
            TimesAffected(v) = (IF HasCandidate(v) THEN 1 ELSE 0)

\* the keys of the bulk build are in the tree, which was empty before
BulkBuilt == lastop = "apply_updates" /\ call.name = "bulk_build"

LeavesWithinSlotBounds ==
    \A leaf \in Leaves(root) : leafslotmin <= leaf.slotuse /\ leaf.slotuse <= leafslotmax

\* C11, as the specification words it: the batch of INSERTs for the keys
\* 1..1000 applied to the empty tree leaves size() = 1000, height() 1 or 2,
\* 2 to 8 keys in every leaf, and a tree that verify() accepts.
C11_BulkBuildHeight1or2 ==
    BulkBuilt =>
        /\ size(stats) = Len(BulkBuildKeys)
        /\ height(root) \in {1, 2}
        /\ LeavesWithinSlotBounds
        /\ ~fault /\ verify(root, stats)

\* C11: the batch of INSERTs for the keys 1..1000 applied to the empty tree
\* leaves size() = 1000, height() = 3, 2 to 8 keys in every leaf, and a tree
\* that verify() accepts and that holds exactly the keys 1..1000.
C11_BulkBuild ==
    BulkBuilt =>
        /\ size(stats) = Len(BulkBuildKeys)
        /\ height(root) = 3
        /\ LeavesWithinSlotBounds
        /\ ~fault /\ verify(root, stats)
        /\ TreeKeys(root) = BulkBuildKeys

\* the last call was handed one INSERT and nothing else, for a tree that held
\* maxweight(l) keys under a root on level l
OneInsertIntoFullTree ==
    /\ lastop = "apply_updates" /\ call.name # "none"
    /\ call.size > 0 /\ call.size = maxweight(call.level)
    /\ call.inserts = 1 /\ call.deletes = 0

\* C13: one INSERT into a tree whose root is on level l and whose size is
\* maxweight(l) puts the root on level l+1 and makes size() = maxweight(l)+1.
C13_RootRebuild ==
    OneInsertIntoFullTree =>
        /\ height(root) = call.level + 1
        /\ size(stats) = maxweight(call.level) + 1
        /\ ~fault

\* the last call was handed a batch of no net weight, for a tree left by
\* deletions with one child under a root on level l >= 1 and with at most
\* maxweight(l-1) keys
NoNetBatchOnSingleChild ==
    /\ lastop = "apply_updates" /\ call.name = "slide" /\ call.after = "truncate"
    /\ call.inserts = call.deletes
    /\ call.level >= 1 /\ call.slotuse = 1
    /\ call.size <= maxweight(call.level - 1)

\* C14: a batch of no net weight applied to a tree that deletions left with a
\* single child under a root on level l >= 1 and with at most maxweight(l-1)
\* keys rebuilds the tree and leaves the root on level l-1.
C14_RootCollapse ==
    NoNetBatchOnSingleChild =>
        /\ "rebuild" \in paths
        /\ height(root) = call.level - 1

\* the rebuild condition of apply_updates, on the root level before the call
\* and size() as the call set it
RebuildRequired ==
    \/ /\ num_optimal_levels(size(stats)) < call.level
       /\ size(stats) < minweight(call.level)
    \/ size(stats) > maxweight(call.level)

SpecOptimalLevels(n) ==
    IF n <= designated_leafsize THEN 0
    ELSE CeilLog(n, 0)
           - BoolInt(num_subtrees(n, designated_subtreesize(CeilLog(n, 0))) = 1)

\* C20: num_optimal_levels(n) is 0 for n <= designated_leafsize and otherwise
\* the least L with b^L >= 8n/(5k), less one when
\* num_subtrees(n, designated_subtreesize(L)) = 1; n being the size
\* apply_updates computed the level for.
C20_OptimalLevels ==
    (lastop = "apply_updates" /\ call.name # "none" /\ size(stats) # 0) =>
        num_optimal_levels(size(stats)) = SpecOptimalLevels(size(stats))

\* the steps of one kind that the observed call noted
StepsNoted(op) ==
    IF seen.op = "apply_updates" THEN {s \in seen.log : s.op = op} ELSE {}

\* the subtree of an inner node with the routers slotkey that an operation on
\* key belongs to: the first one whose router is not less than the key, the
\* last one if there is none
Target(slotkey, key) ==
    IF \E i \in 1..Len(slotkey) : key_lessequal(key, slotkey[i])
    THEN CHOOSE i \in 1..Len(slotkey) :
            /\ key_lessequal(key, slotkey[i])
            /\ \A j \in 1..(i - 1) : key_less(slotkey[j], key)
    ELSE Len(slotkey)

\* C22: at an inner node that receives the range [B, E) of the batch, the
\* ranges handed to its subtrees are contiguous, disjoint and cover [B, E) in
\* slot order; an operation goes to subtree i exactly when its key is at most
\* router i and greater than router i-1, and an operation on a key greater
\* than the last router goes to the last subtree
C22_Distribution ==
    \A s \in StepsNoted("distribute") :
        LET su == s.subtree_updates
            n == Len(su)
        IN  /\ n = Len(s.slotkey) /\ n >= 1
            /\ su[1].upd_begin = s.upd_begin
            /\ su[n].upd_end = s.upd_end
            /\ \A i \in 1..n : su[i].upd_begin <= su[i].upd_end
            /\ \A i \in 1..(n - 1) : su[i].upd_end = su[i + 1].upd_begin
            /\ \A x \in s.upd_begin..(s.upd_end - 1), i \in 1..n :
                  (su[i].upd_begin <= x /\ x < su[i].upd_end)
                      <=> i = Target(s.slotkey, seen.updates[x + 1].data)

\* the keys written to a leaf
Written(leaf) == {i \in 1..Len(leaf.slotkey) : leaf.slotkey[i] # Uninit}

\* the keys of the leaves q[i], q[i + 1], ... one after the other
RECURSIVE LeafKeys(_, _)
LeafKeys(q, i) ==
    IF i > Len(q) THEN << >> ELSE SubSeq(q[i].slotkey, 1, q[i].slotuse) \o LeafKeys(q, i + 1)

C24_PatchFitsSpareLeaf ==
    \A s \in StepsNoted("patch") :
        /\ Len(s.slotkey) >= 1
        /\ Len(s.slotkey) <= leafslotmax
        /\ s.slotuse = Len(s.slotkey)

\* the sum of the first i elements of a sequence of numbers
RECURSIVE SumTo(_, _)
SumTo(q, i) == IF i = 0 THEN 0 ELSE q[i] + SumTo(q, i - 1)

Descended(tasks) == {t.path[Len(t.path)] : t \in SeqRange(tasks)}

\* the prefix the loop holds when it comes to slot i, given the slots D it
\* descended into: the minimum of the last of them before i, if there is one,
\* and the incoming prefix p otherwise
PrefixBefore(inner, p, D, i) ==
    LET before == {j \in D : j < i}
    IN  IF before = {} THEN p
        ELSE inner.slot[(CHOOSE j \in before : \A h \in before : h <= j) + 1].minimum

\* C28: in the minima traversal of an inner node with incoming prefix p the
\* slots are examined in order; slot i is descended into exactly when
\* minimum[i].second_weight is below the prefix's or minimum[i] equals the
\* prefix in both weights, the descent gets the prefix as it was before slot
\* i was examined, and the prefix becomes minimum[i] only at the slots that
\* were descended into
C28_DescentRule ==
    seen.op \in {"findParetoMinima", "execute"} =>
        LET inner == NodeAt(root, seen.path)
            D == Descended(seen.tasks)
            Pre(i) == PrefixBefore(inner, seen.prefix_minima, D, i)
        IN  /\ \A k \in 1..Len(seen.tasks) :
                  /\ Len(seen.tasks[k].path) = Len(seen.path) + 1
                  /\ ParentOf(seen.tasks[k].path) = seen.path
                  /\ seen.tasks[k].prefix_minima = Pre(seen.tasks[k].path[Len(seen.path) + 1])
                  /\ \A h \in 1..(k - 1) :
                        seen.tasks[h].path[Len(seen.path) + 1]
                            < seen.tasks[k].path[Len(seen.path) + 1]
            /\ D \subseteq 0..(inner.slotuse - 1)
            /\ \A i \in 0..(inner.slotuse - 1) :
                  i \in D <=>
                      \/ inner.slot[i + 1].minimum.second_weight < Pre(i).second_weight
                      \/ /\ inner.slot[i + 1].minimum.first_weight = Pre(i).first_weight
                         /\ inner.slot[i + 1].minimum.second_weight = Pre(i).second_weight

\* a task below the root descended into two slots and passed over one between
\* them; the second descent got the minimum of the first as its prefix
C28_SlotPassedOver ==
    /\ seen.op = "execute" /\ Len(seen.tasks) >= 2
    /\ seen.tasks[2].path[Len(seen.path) + 1] > seen.tasks[1].path[Len(seen.path) + 1] + 1
    /\ seen.tasks[2].prefix_minima # seen.prefix_minima
    /\ seen.tasks[2].prefix_minima
         = NodeAt(root, seen.path).slot[seen.tasks[1].path[Len(seen.path) + 1] + 1].minimum

\* worker w is between two minima: every minimum in its update buffer has had
\* all its edges looked at
BetweenMinima(w) == running[w] = NoTask \/ ~Scanning(w) \/ running[w].e = 1

\* the passes of worker w through FORALL_EDGES that pushed label c for target
\* v: pairs of the position of a minimum in its update buffer and the number
\* of one of its edges.  The sums are taken in weight_type
Derivations(w, v, c) ==
    {d \in (1..Len(tls_local_updates[w])) \X (1..2) :
        LET min == tls_local_updates[w][d[1]].data
            edge == EdgesOf(min.node)[d[2]]
        IN  /\ edge.target = v
            /\ c.first_weight = (min.first_weight + edge.first_weight) % (WEIGHT_MAX + 1)
            /\ c.second_weight = (min.second_weight + edge.second_weight) % (WEIGHT_MAX + 1)}

\* the positions of label c in worker w's candidate buffer for target v
PushedAt(w, v, c) == {k \in 1..Len(tls_candidates[w][v]) : tls_candidates[w][v][k] = c}

\* C29: for every minimum m a worker emits and every outgoing edge e of
\* m.node, the worker appends exactly one candidate (m.first_weight +
\* e.first_weight, m.second_weight + e.second_weight) to its buffer for the
\* target e.target, and exactly one DELETE of m to its update buffer; it
\* produces no other candidate and no other operation
C29_CandidatesAndDeletes ==
    ~fault =>
        /\ \A w \in 1..num_threads :
              /\ \A k \in 1..Len(tls_local_updates[w]) :
                    /\ tls_local_updates[w][k].type = DELETE
                    /\ tls_local_updates[w][k].data \in SeqRange(TreeKeys(root))
                    /\ \A x \in 1..num_threads : \A h \in 1..Len(tls_local_updates[x]) :
                          tls_local_updates[x][h].data = tls_local_updates[w][k].data
                              => (x = w /\ h = k)
              /\ BetweenMinima(w) =>
                    \A v \in 0..(numberOfNodes - 1) :
                        /\ \A c \in [first_weight : 0..WEIGHT_MAX, second_weight : 0..WEIGHT_MAX] :
                              Cardinality(PushedAt(w, v, c)) = Cardinality(Derivations(w, v, c))
                        /\ \A k \in 1..Len(tls_candidates[w][v]) :
                              tls_candidates[w][v][k]
                                  \in [first_weight : 0..WEIGHT_MAX, second_weight : 0..WEIGHT_MAX]
        /\ pc = "done" => ParallelMinima = ParetoFront(SeqRange(TreeKeys(root)))

\* two workers each emitted minima, and one of them derived two candidates for
\* the same target from two of its minima
C29_TwoMinimaOneTarget ==
    /\ ~fault /\ pc = "done" /\ num_threads = 2
    /\ \A w \in 1..2 : tls_local_updates[w] # << >>
    /\ \E w \in 1..2 : Len(tls_local_updates[w]) >= 2 /\ Len(tls_candidates[w][0]) >= 2

\* the workers that hold candidates for node v
Claimants(v) == {w \in 1..num_threads : tls_candidates[w][v] # << >>}

\* the cell of the candidate buffer list at position j of node v
CellOf(v, j) == candidate_bufferlist[v * num_threads + j]

\* C30: however the workers interleave within one findParetoMinima, no two
\* workers are given the same cell of the candidate buffer list of a target:
\* the positions claimed for a target are distinct and consecutive from 0, and
\* every registered cell points at the buffer of the worker that claimed it
C30_CellsClaimedOnce ==
    ~fault =>
        \A v \in 0..(numberOfNodes - 1) :
            /\ candidate_bufferlist_counter[v] = Cardinality(Claimants(v))
            /\ candidate_bufferlist_counter[v] <= num_threads
            /\ \A j \in 0..(num_threads - 1) :
                  /\ CellOf(v, j) = 0 <=> j >= candidate_bufferlist_counter[v]
                  /\ CellOf(v, j) # 0 => CellOf(v, j) \in Claimants(v)
                  /\ \A h \in 0..(num_threads - 1) :
                        (h # j /\ CellOf(v, j) # 0) => CellOf(v, h) # CellOf(v, j)

\* two workers claimed cells of the same two targets while their scans were
\* interleaved, the one first for one target and the other first for the other
C30_BothOrders ==
    /\ ~fault /\ num_threads = 2
    /\ \E v, u \in 0..(numberOfNodes - 1) :
          /\ CellOf(v, 0) = 1 /\ CellOf(v, 1) = 2
          /\ CellOf(u, 0) = 2 /\ CellOf(u, 1) = 1

\* C40: every FindParetMinTask executed on a node at or above the recursion
\* end level creates at least one child task before it takes the first task
\* of its list, and a position claimed for a target is smaller than
\* num_threads (no assertion of the scan fails) when the candidate buffers and
\* the counters start the iteration empty
C40_ChildTaskAndPosition ==
    /\ seen.op = "execute" => Len(seen.tasks) >= 1
    /\ ~fault
    /\ \A v \in 0..(numberOfNodes - 1) :
          candidate_bufferlist_counter[v] \in 0..num_threads

\* a task split an inner node below the root into more than one child task,
\* and both workers claimed a position of the same target
C40_SplitAndLastPosition ==
    /\ seen.op = "execute" /\ Len(seen.tasks) >= 2 /\ seen.path # << >>
    /\ num_threads = 2
    /\ \E v \in 0..(numberOfNodes - 1) : candidate_bufferlist_counter[v] = num_threads

\* C39: after clear() on a tree with size() > 0, size() returns 0 and empty()
\* returns true, so that size() is the number of keys reachable from the root
C39_ClearedIsEmpty ==
    lastop = "clear" =>
        /\ size(stats) = 0
        /\ empty(stats)
        /\ size(stats) = Len(TreeKeys(root))

\* C38: every inner node apply_updates builds or rebuilds has at least 1 and at
\* most innerslotmax = 4*b slots; in the rebalancing branch the slots copied
\* plus the slots created for the rewritten runs never exceed innerslotmax, so
\* that BTREE_ASSERT(new_slotuse <= innerslotmax) holds and no slot array is
\* overrun
C38_InnerSlotsWithinBounds ==
    seen.op = "apply_updates" =>
        /\ ~fault
        /\ innerslotmax = 4 * branchingparameter_b
        /\ \A s \in StepsNoted("create") :
              s.level >= 1 => (1 <= s.new_slotuse /\ s.new_slotuse <= innerslotmax)
        /\ \A s \in StepsNoted("rebalanced") : 1 <= s.out /\ s.out <= innerslotmax
        /\ \A n \in Inners(root) :
              /\ 1 <= n.slotuse /\ n.slotuse <= innerslotmax
              /\ Len(n.slot) <= innerslotmax

\* an inner node was rebalanced into more slots than it had: some of its
\* slots were copied and a rewritten run was given more slots than it took
C38_CopiedAndCreated ==
    /\ seen.op = "apply_updates" /\ ~fault
    /\ \E s \in StepsNoted("rebalanced") :
          /\ s.out > s.slotuse
          /\ \E i \in 1..s.slotuse : ~s.subtree_updates[i].rebalancing_needed
          /\ \E c \in StepsNoted("create") :
                c.level = s.level /\ c.new_slotuse = s.out /\ Len(c.weight) < s.out

\* C35: at an inner node that is not itself rewritten, a slot that gets no
\* updates and is in no rebalancing run keeps its child node, router key,
\* weight and minimum through apply_updates; when no child needs rebalancing
\* the inner node itself is kept and only the children with a non-empty update
\* range are touched
C35_UntouchedSlotsKept ==
    (seen.op = "apply_updates" /\ ~fault) =>
        /\ \A s \in StepsNoted("copy") :
              s.upd.upd_begin = s.upd.upd_end =>
                  /\ s.after = s.before
                  /\ \E n \in SubNodes(seen.root) :
                        /\ ~isleafnode(n) /\ n.level = s.level /\ s.out < n.slotuse
                        /\ n.slot[s.out + 1] = s.before
        /\ \A s \in StepsNoted("inplace") :
              ~s.rewrite_subtree =>
                  /\ s.after.id = s.before.id
                  /\ s.after.level = s.before.level
                  /\ s.after.slotuse = s.before.slotuse
                  /\ \A i \in 1..s.before.slotuse :
                        s.subtree_updates[i].upd_begin = s.subtree_updates[i].upd_end
                            => s.after.slot[i] = s.before.slot[i]
                  /\ \E n \in SubNodes(seen.root) : n.id = s.before.id

\* an inner node below the root was rebalanced and a slot without updates was
\* copied to another position of the node that replaced it, while the root was
\* kept, with a child the batch had nothing for
C35_CopiedToAnotherPosition ==
    /\ seen.op = "apply_updates" /\ ~fault
    /\ \E s \in StepsNoted("copy") :
          s.upd.upd_begin = s.upd.upd_end /\ s.out # s.in /\ s.level = 1
    /\ \E s \in StepsNoted("inplace") :
          /\ ~s.rewrite_subtree /\ s.before.level = 2
          /\ \E i \in 1..s.before.slotuse :
                s.subtree_updates[i].upd_begin = s.subtree_updates[i].upd_end

\* C27: after an apply_updates that leaves keys in the tree, a root that is an
\* inner node never has exactly one slot; a rebuild that would leave the root
\* with a single subtree makes that subtree the root
C27_RootNeverSingleSlot ==
    (lastop = "apply_updates" /\ ~fault /\ ~IsNull(root) /\ ~isleafnode(root)) =>
        root.slotuse # 1

\* the INSERTs minus the DELETEs among the operations i .. j-1 of batch b
NetInserts(b, i, j) ==
    Cardinality({x \in (i + 1)..j : b[x].type = INSERT})
        - Cardinality({x \in (i + 1)..j : b[x].type = DELETE})

\* C21: for every batch and all 0 <= i <= j <= n, getWeightDelta(i, j) is the
\* number of INSERTs minus the number of DELETEs among the operations i .. j-1,
\* by the closed form of a pure batch and by the prefix sums of a mixed one;
\* and the parallel scan leaves the prefix sums of the batch in the array and
\* returns their total, however the range was split into blocks and in
\* whichever order the blocks were scanned
C21_WeightDelta ==
    /\ seen.op = "getWeightDelta" =>
          seen.delta = NetInserts(seen.updates, seen.upd_begin, seen.upd_end)
    /\ seen.op = "setOperations" =>
          seen.new_size = size(stats) + NetInserts(seen.updates, 0, Len(seen.updates))
    /\ seen.op = "scan_done" =>
          /\ \A j \in 0..Len(seen.updates) : seen.out[j + 1] = NetInserts(seen.updates, 0, j)
          /\ seen.out = PrefixSum(seen.updates, 0, 0, << 0 >>)
          /\ seen.new_size = size(stats) + NetInserts(seen.updates, 0, Len(seen.updates))

(* States in which the properties have something to say                    *)

\* a call patched one leaf in place and rewrote another one
C1_PatchedAndRewritten ==
    lastop = "apply_updates" /\ {"patch", "rewrite"} \subseteq paths /\ height(root) = 1

C3_PushedDown ==
    /\ lastop = "apply_updates"
    /\ {"patch", "INSERTS_AND_DELETES"} \subseteq paths
    /\ paths \cap {"run", "emptyrun", "rebuild"} = {}
    /\ height(root) = 1 /\ size(stats) # Cardinality(Keys)

\* a call copied one slot and built the one beside it from fresh leaves
C5_CopiedBesideFresh ==
    /\ lastop = "apply_updates" /\ {"copy", "run"} \subseteq paths
    /\ height(root) = 1 /\ root.slotuse >= 2

C7_AfterDeletesOnly ==
    /\ lastop = "apply_updates" /\ "DELETES_ONLY" \in paths
    /\ height(root) = 1 /\ size(stats) > 0

\* a batch deleted the last keys of a tree with an inner root
C8_InnerRootReleased ==
    lastop = "apply_updates" /\ "clear_inner" \in paths /\ ref_keys = {}

\* tasks split a node into child tasks, and two workers found minima
C10_SplitAndShared ==
    /\ pc = "done" /\ "split" \in paths
    /\ Cardinality({w \in 1..num_threads : tls_local_updates[w] # << >>}) >= 2
    /\ Cardinality(ParallelMinima) >= 2

\* the minima were searched after (1,0,0) was deleted from the six labels
C12_SearchedAfterDelete ==
    /\ lastop = "find_pareto_minima" /\ ref_keys = SmallRest
    /\ call.name = "applyUpdates" /\ call.size = Cardinality(SmallKeys)
    /\ call.deletes = 1 /\ call.inserts = 0
    /\ SeqRange(TreeKeys(root)) = SmallRest

C18_ContendedTarget ==
    /\ pc = "done" /\ num_threads > 1 /\ "scan" \in paths
    /\ \E v \in 0..(numberOfNodes - 1) : \A w \in 1..num_threads : tls_candidates[w][v] # << >>
    /\ \E v \in 0..(numberOfNodes - 1) : ~HasCandidate(v)

\* the bulk build rebuilt the root
C11_BulkBuildDone == BulkBuilt /\ "rebuild" \in paths /\ ~IsNull(root)

\* a root on level 1 holding maxweight(1) keys was handed one INSERT
C13_InnerRootOverflowed == OneInsertIntoFullTree /\ call.level = 1

C21_ClosedFormOnDeletes ==
    /\ seen.op = "getWeightDelta" /\ seen.batch_type = DELETES_ONLY
    /\ seen.upd_begin > 0 /\ seen.upd_end - seen.upd_begin >= 2 /\ seen.delta < 0

C24_PatchedToFull ==
    /\ seen.op = "apply_updates" /\ ~fault /\ call.level = 2
    /\ \E s \in StepsNoted("patch") :
         Len(s.slotkey) = leafslotmax /\ s.from.slotuse < leafslotmax

C22_RangeSplitBelowRoot ==
    /\ seen.op = "apply_updates" /\ ~fault
    /\ \E s \in StepsNoted("distribute") :
         /\ s.level < call.level /\ s.upd_begin > 0
         /\ Cardinality({i \in 1..Len(s.subtree_updates) :
                            hasUpdates(s.subtree_updates[i])}) >= 2
         /\ key_less(s.slotkey[Len(s.slotkey)], seen.updates[s.upd_end].data)


-----------------------------------------------------------------------------
(* find_lower of the parallel tree, run on its own                         *)

\* find_lower of the parallel tree on the batch updates: [ret, read], read
\* being the indices of the batch the call looked at.  lo and hi are ints
RECURSIVE parallel_find_lower_loop(_, _, _, _, _)
parallel_find_lower_loop(updates, lo, hi, key, read) ==
    IF lo < hi
    THEN LET mid == (lo + hi) \div 2
         IN  IF mid + 1 \in DOMAIN updates /\ key_less(key, updates[mid + 1].data)
             THEN parallel_find_lower_loop(updates, lo, mid - 1, key, read \cup {mid})
             ELSE parallel_find_lower_loop(updates, mid + 1, hi, key, read \cup {mid})
    ELSE [hi |-> hi, read |-> read]

parallel_find_lower(updates, begin, end, key) ==
    LET r == parallel_find_lower_loop(updates, begin, end - 1, key, {})
        \* hi += (hi < 0 || key_lessequal(updates[hi].data, key))
    IN  IF r.hi < 0
        THEN [ret |-> r.hi + 1, read |-> r.read]
        ELSE [ret |-> r.hi + BoolInt(r.hi + 1 \in DOMAIN updates
                                     /\ key_lessequal(updates[r.hi + 1].data, key)),
              read |-> r.read \cup {r.hi}]

\* both trees look for key in the range begin..end-1 of a sorted batch
FindLower ==
    /\ seen = NoneSeen
    /\ \E n \in 0..MaxLower, skipped \in SUBSET (1..MaxLower) :
         \E updates \in {InsertAll(SortAll({ScenarioKey(2 * i) :
                                                i \in (1..(n + 1)) \ skipped}))} :
           \E begin \in 0..Len(updates), key \in 1..(2 * MaxLower + 3) :
             \E end \in begin..Len(updates) :
               seen' = [op |-> "find_lower", updates |-> updates, begin |-> begin,
                        end |-> end, key |-> ScenarioKey(key),
                        parallel |-> parallel_find_lower(updates, begin, end, ScenarioKey(key)),
                        sequential |-> find_lower([updates |-> updates], begin, end,
                                                  ScenarioKey(key))]
    /\ Unobserved

NextLower == FindLower

SpecLower == Init /\ [][NextLower]_vars

-----------------------------------------------------------------------------
-----------------------------------------------------------------------------
(* The leaf rewrite of the parallel tree: TreeRewriteTask::execute on a     *)
(* leaf whose range of updates is not small hands the range to              *)
(* tbb::parallel_for, which cuts it into sub-ranges                         *)

REWRITE_THRESHOLD == 2

RECURSIVE find_index_of_lower_key_loop(_, _, _, _)
find_index_of_lower_key_loop(leaf, lo, hi, key) ==
    IF lo < hi
    THEN LET mid == (lo + hi) \div 2
         IN  IF key_less(key, leaf.slotkey[mid + 1])
             THEN find_index_of_lower_key_loop(leaf, lo, mid - 1, key)
             ELSE find_index_of_lower_key_loop(leaf, mid + 1, hi, key)
    ELSE hi

\* hi += (hi < 0 || key_lessequal(leaf->slotkey[hi], key)); return hi
find_index_of_lower_key(leaf, key) ==
    LET hi == find_index_of_lower_key_loop(leaf, 0, leaf.slotuse - 1, key)
    IN  hi + BoolInt(hi < 0 \/ key_lessequal(leaf.slotkey[hi + 1], key))

\* resultTreeIsSmall() of the task with the updates upd
resultTreeIsSmall(t, upd) ==
    t.weightdelta[upd.upd_end + 1] - t.weightdelta[upd.upd_begin + 1]
        < designated_leafsize * REWRITE_THRESHOLD

\* write_updated_leaf_to_new_tree(in, rank, upd_begin, upd_end) of the task
\* with the updates upd, writing into leaves; the keys after the last update
\* are written by the call whose range ends where the task's range ends
write_updated_leaf_range(t, leaf, in, rank, upd_begin, upd_end, upd, leaves) ==
    LET ln0 == rank \div designated_leafsize
        squeezed == ln0 >= Len(leaves)
        leaf_number == IF squeezed THEN Len(leaves) - 1 ELSE ln0
        offset_in_leaf == IF squeezed THEN rank - leaf_number * designated_leafsize
                          ELSE rank % designated_leafsize
        s0 == [in |-> in, out |-> offset_in_leaf, leaf_number |-> leaf_number,
               leaves |-> leaves, fault |-> rank < 0]
        s1 == rewrite_ops(t, leaf, upd_begin, upd_end, s0)
    IN  IF upd_end = upd.upd_end THEN rewrite_rest(leaf, s1) ELSE s1

\* the body parallel_for runs on the sub-range r
rewrite_blocked_range(t, leaf, rank, upd, r, leaves) ==
    LET delta == t.weightdelta[r.begin + 1] - t.weightdelta[upd.upd_begin + 1]
        key_index == find_index_of_lower_key(leaf, t.updates[r.begin + 1].data)
        corrected_rank == rank + key_index + delta
    IN  write_updated_leaf_range(t, leaf, key_index, corrected_rank, r.begin, r.end, upd, leaves)

\* The sub-ranges tbb::parallel_for may run the body on: a blocked_range of
\* more than one index (the grain size is 1) is run as it is or is cut in the
\* middle, and so are its halves
RECURSIVE blocked_ranges(_, _)
blocked_ranges(begin, end) ==
    {<< [begin |-> begin, end |-> end] >>}
      \cup (IF end - begin > 1
            THEN LET middle == begin + (end - begin) \div 2
                 IN  {p \o q : p \in blocked_ranges(begin, middle),
                               q \in blocked_ranges(middle, end)}
            ELSE {})

\* the leaves a root creation task allocates for a tree of n keys
NewLeaves(n) == [i \in 1..num_subtrees(n, designated_leafsize) |-> EmptyLeaf(i)]

\* A rewrite task is executed on a leaf with the one or two keys of L; its
\* range is the whole batch, which deletes the keys of D and inserts the keys
\* of I, all other keys of 1..MaxRewrite but at most one.  What
\* is observed is what each sub-range writes into leaves of its own, and what
\* one call for the whole range writes
RewriteLeaf ==
    /\ seen = NoneSeen
    /\ \E first \in 1..MaxRewrite, second \in 1..MaxRewrite, missing \in 0..MaxRewrite :
         \E L \in {{first, second}} :
           \E D \in SUBSET L, I \in {(1..MaxRewrite) \ (L \cup {missing})} :
           /\ first <= second
           /\ missing \notin L
           /\ \E keys \in {SortAll({ScenarioKey(i) : i \in I \cup D})},
                 leaf \in {[EmptyLeaf(0) EXCEPT
                               !.slotuse = Cardinality(L),
                               !.slotkey = SortAll({ScenarioKey(i) : i \in L})]} :
               \E updates \in {[i \in 1..Len(keys) |->
                                   [type |-> IF keys[i].first_weight \in D THEN DELETE ELSE INSERT,
                                    data |-> keys[i]]]} :
                 \E t \in {[updates |-> updates,
                             weightdelta |-> PrefixSum(updates, 0, 0, << 0 >>)]},
                    upd \in {[upd_begin |-> 0, upd_end |-> Len(updates)]} :
                   /\ ~resultTreeIsSmall(t, upd)
                   /\ \E ranges \in blocked_ranges(upd.upd_begin, upd.upd_end),
                         leaves \in {NewLeaves(Cardinality(L) + Cardinality(I) - Cardinality(D))} :
                        seen' = [op |-> "rewrite_leaf", leaf |-> leaf, updates |-> updates,
                                 ranges |-> ranges,
                                 parallel |->
                                     [j \in 1..Len(ranges) |->
                                         rewrite_blocked_range(t, leaf, 0, upd, ranges[j], leaves)],
                                 sequential |->
                                     write_updated_leaf_range(t, leaf, 0, 0, upd.upd_begin,
                                                              upd.upd_end, upd, leaves)]
    /\ Unobserved

NextRewrite == RewriteLeaf

SpecRewrite == Init /\ [][NextRewrite]_vars

\* the key in cell o (from 0) of leaf l (from 0) of leaves, Uninit if unwritten
CellOfLeaf(leaves, l, o) ==
    IF o < Len(leaves[l + 1].slotkey) THEN leaves[l + 1].slotkey[o + 1] ELSE Uninit

\* the sub-ranges of the observed rewrite that wrote cell o of leaf l
WritersOf(l, o) ==
    {j \in 1..Len(seen.ranges) : CellOfLeaf(seen.parallel[j].leaves, l, o) # Uninit}

\* C37: when the range of updates of a source leaf is cut into sub-ranges, the
\* destination leaves get the same keys at the same positions as from one call
\* for the whole range, whatever the cut: every cell the single call writes is
\* written by exactly one sub-range, with the same key, no other cell is
\* written, and no call reads or writes outside its leaves
C37_SubRangesAsOneCall ==
    seen.op = "rewrite_leaf" =>
        /\ ~seen.sequential.fault
        /\ \A j \in 1..Len(seen.ranges) : ~seen.parallel[j].fault
        /\ \A l \in 0..(Len(seen.sequential.leaves) - 1), o \in 0..(leafslotmax - 1) :
              IF CellOfLeaf(seen.sequential.leaves, l, o) = Uninit
              THEN WritersOf(l, o) = {}
              ELSE /\ Cardinality(WritersOf(l, o)) = 1
                   /\ \A j \in WritersOf(l, o) :
                         CellOfLeaf(seen.parallel[j].leaves, l, o)
                             = CellOfLeaf(seen.sequential.leaves, l, o)

-----------------------------------------------------------------------------
(* The bulk update of the parallel tree.  apply_updates creates a root      *)
(* task and waits for it; a task creates child tasks, spawns them and waits *)
(* for them (spawn_and_wait_for_all), and the workers of the scheduler      *)
(* execute the spawned tasks in any order.  The nodes live in a heap: a     *)
(* node is [level, slotuse, slotkey, weight, childid], the three arrays as  *)
(* sequences, childid holding the addresses of the children.  The whole    *)
(* state of an update is the record seen = [op |-> "tasks", ...]:           *)
(*   nodes, freed        the heap and the addresses free_node was given     *)
(*   root, new_root      the tree's root and the local of apply_updates     *)
(*   updates, weightdelta, stats, spare (spare_leaves, by worker)           *)
(*   tasks               the tasks by path: the root task is <<1>>, the     *)
(*                       k-th child of task p is p \o <<k>>                 *)
(*   acc                 the accesses of the tasks to the nodes             *)
(*   dangling, fault     a reference to a dead local was used; a call left  *)
(*                       its arrays or an assertion failed                  *)
(*   pc                  "waiting" in spawn_root_and_wait, then "done",     *)
(*                       and "cleared" after clear()                        *)

\* the root of a tree before a bulk update has at most MaxLeavesPar leaves
MaxLeavesPar == 3

NullId == << >>

\* the address of the k-th node task p allocates, and of the spare leaf a
\* worker allocates
NewNodeId(p, k) == << 100 >> \o p \o << k >>

SpareIdOf(w) == << 200, w >>

LeafNode(keys) ==
    [level |-> 0, slotuse |-> Len(keys), slotkey |-> keys, weight |-> << >>, childid |-> << >>]

InnerNode(level) ==
    [level |-> level, slotuse |-> 0, slotkey |-> << >>, weight |-> << >>, childid |-> << >>]

\* an access of task p to cell index of an array of a node (index -1: to
\* the cells in use), or to its slotuse; worker is the thread where the
\* access depends on it (its spare leaf), else 0
Access(p, node, field, index, write) ==
    [task |-> p, node |-> node, field |-> field, index |-> index, write |-> write,
     worker |-> 0]

ByWorker(accesses, w) == {[x EXCEPT !.worker = w] : x \in accesses}

Accessed(S, accesses) ==
    [S EXCEPT !.acc = @ \cup accesses,
              !.read_freed = @ \/ \E x \in accesses : x.node \in S.freed]

\* new (allocator.allocate(1)) node; n->initialize()
NewNode(S, id, node) ==
    [S EXCEPT !.nodes = [x \in DOMAIN @ \cup {id} |-> IF x = id THEN node ELSE @[x]]]

\* allocate_leaf and allocate_inner: the counters are atomic
allocate_leaf_tbb(S, id) ==
    [NewNode(S, id, LeafNode(<< >>)) EXCEPT !.stats.leaves = @ + 1]

allocate_inner_tbb(S, id, level) ==
    [NewNode(S, id, InnerNode(level)) EXCEPT !.stats.innernodes = @ + 1]

free_node_tbb(S, id) ==
    IF id \notin DOMAIN S.nodes \/ id \in S.freed
    THEN [S EXCEPT !.fault = TRUE]
    ELSE IF S.nodes[id].level = 0
         THEN [S EXCEPT !.freed = @ \cup {id}, !.stats.leaves = @ - 1]
         ELSE [S EXCEPT !.freed = @ \cup {id}, !.stats.innernodes = @ - 1]

\* A reference to a pointer (node*&) or to a key (key_type&): the tree's root,
\* the local new_root of apply_updates, cell i of childid or of slotkey of a
\* node, a local of the execute() of a task (val is what was last stored in
\* it by its owner), or a local nobody reads (unused_router)
RootRef == [kind |-> "root", node |-> NullId, i |-> 0, val |-> NullId]

NewRootRef == [kind |-> "new_root", node |-> NullId, i |-> 0, val |-> NullId]

SlotRef(node, i) == [kind |-> "slot", node |-> node, i |-> i, val |-> NullId]

LocalRef(owner, val) == [kind |-> "local", node |-> owner, i |-> 0, val |-> val]

UnusedRef == [kind |-> "unused", node |-> NullId, i |-> 0, val |-> NullId]

\* the pointer a reference refers to
Deref(S, ref) ==
    CASE ref.kind = "root" -> S.root
      [] ref.kind = "new_root" -> S.new_root
      [] ref.kind = "slot" -> S.nodes[ref.node].childid[ref.i + 1]
      [] OTHER -> ref.val

\* ref = id for a reference to a pointer; a store through a reference to a
\* local of a block that was left goes to the stack
SetPointer(S, ref, id) ==
    CASE ref.kind = "root" -> [S EXCEPT !.root = id]
      [] ref.kind = "new_root" -> [S EXCEPT !.new_root = id]
      [] ref.kind = "slot" ->
            [S EXCEPT !.nodes[ref.node].childid = SetAt(@, ref.i, id, NullId)]
      [] OTHER -> [S EXCEPT !.dangling = TRUE]

\* router = key for a reference to a key
SetRouter(S, ref, key) ==
    IF ref.kind = "slot"
    THEN [S EXCEPT !.nodes[ref.node].slotkey = SetAt(@, ref.i, key, Uninit)]
    ELSE S

\* the accesses of task p made through a reference, to the array field
RefAccess(p, ref, field, write) ==
    IF ref.kind = "slot" THEN {Access(p, ref.node, field, ref.i, write)} ELSE {}

\* result->slotkey[result->slotuse - 1], read from a node
LastKey_tbb(node) ==
    IF node.slotuse \in 1..Len(node.slotkey) THEN node.slotkey[node.slotuse] ELSE Uninit

\* what the functions of the sequential tree that the tasks share with it
\* read of the tree: the batch and its weight deltas
RunningBatch(S) ==
    [updates |-> S.updates, weightdelta |-> S.weightdelta, batch_type |-> INSERTS_AND_DELETES]

\* num_subtrees of the parallel tree
num_subtrees_tbb(n, subtreesize) ==
    (n \div subtreesize) + BoolInt(n % subtreesize >= subtreesize - (n % subtreesize))

\* designated_subtreesize of the parallel tree
designated_subtreesize_tbb(level) == (maxweight(level - 1) + minweight(level - 1)) \div 2

\* ceil(log(2n/k) / log(b)) is the least L with k * b^L >= 2n
RECURSIVE CeilLog_tbb(_, _)
CeilLog_tbb(n, L) ==
    IF leafparameter_k * ipow(branchingparameter_b, L) >= 2 * n THEN L ELSE CeilLog_tbb(n, L + 1)

\* num_optimal_levels of the parallel tree
num_optimal_levels_tbb(n) ==
    IF n <= leafslotmax THEN 0
    ELSE LET opt_levels == CeilLog_tbb(n, 0)
         IN  opt_levels - BoolInt(num_subtrees_tbb(n, designated_subtreesize_tbb(opt_levels)) = 1)

\* Distribute operations and find out which subtrees need rebalancing: the
\* descriptors of the slots i.. of inner, appended to su
RECURSIVE distribute_tbb(_, _, _, _, _, _)
distribute_tbb(S, inner, i, subupd_begin, upd_end, su) ==
    LET min_weight == minweight(inner.level - 1)
        max_weight == maxweight(inner.level - 1)
        last == inner.slotuse - 1
    IN  IF i < last
        THEN LET subupd_end ==
                     parallel_find_lower(S.updates, subupd_begin, upd_end, inner.slotkey[i + 1]).ret
             IN  distribute_tbb(S, inner, i + 1, subupd_end, upd_end,
                     Append(su, scheduleSubTreeUpdate(RunningBatch(S), inner.weight[i + 1],
                                    min_weight, max_weight, subupd_begin, subupd_end)))
        ELSE Append(su, scheduleSubTreeUpdate(RunningBatch(S), inner.weight[last + 1],
                                    min_weight, max_weight, subupd_begin, upd_end))

\* the accesses of the distribution loop of task p to its node
DistributionAccesses(p, id) ==
    {Access(p, id, "slotuse", 0, FALSE), Access(p, id, "slotkey", 0 - 1, FALSE),
     Access(p, id, "weight", 0 - 1, FALSE)}

\* A task: what its constructor was given (the fields it has no use for are
\* left at their defaults), where it stands (pc: "created", "spawned",
\* "waiting", "joined" for a root creation task waiting a second time, "done"),
\* the number of its children, the reference count it waits with, and the
\* locals its execute() needs after the wait
NoUpd == [rebalancing_needed |-> FALSE, weight |-> 0, upd_begin |-> 0, upd_end |-> 0]

NewTask(kind) ==
    [kind |-> kind, pc |-> "created", children |-> 0, ref_count |-> 0,
     node_ref |-> UnusedRef, router_ref |-> UnusedRef, upd |-> NoUpd,
     source_node |-> NullId, rank |-> 0, leaves_of |-> << >>, leaves |-> << >>,
     old_slotuse |-> 0, reuse_node |-> FALSE, level |-> 0, size |-> 0, subtask_count |-> 0,
     rank_end |-> 0, result |-> NullId, inner |-> NullId, out |-> 0]

WithTask(S, p, task) ==
    [S EXCEPT !.tasks = [x \in DOMAIN @ \cup {p} |-> IF x = p THEN task ELSE @[x]]]

\* spawn(tasks): the children 1..n of task p may be executed
RECURSIVE spawn(_, _, _)
spawn(S, p, n) ==
    IF n = 0 THEN S
    ELSE spawn([S EXCEPT !.tasks[p \o << n >>].pc = "spawned"], p, n - 1)


\* A task returned from execute(): the reference count of its parent drops
Returned(S, p) ==
    LET parent == SubSeq(p, 1, Len(p) - 1)
    IN  IF parent \in DOMAIN S.tasks
        THEN [S EXCEPT !.tasks[p].pc = "done", !.tasks[parent].ref_count = @ - 1]
        ELSE [S EXCEPT !.tasks[p].pc = "done"]

\* set_ref_count(n + 1); spawn_and_wait_for_all(tasks) for the n children of p
spawn_and_wait_for_all(S, p, n) ==
    [spawn(S, p, n) EXCEPT !.tasks[p].pc = "waiting", !.tasks[p].children = n,
                           !.tasks[p].ref_count = n + 1]

\* TreeUpdateTask::update_leaf_in_current_tree, run by worker w
update_leaf_tbb(S, p, w) ==
    LET t == S.tasks[p]
        upd_node == Deref(S, t.node_ref)
        leaf == S.nodes[upd_node]
        exists == S.spare[w] # NullId
        S0 == IF exists THEN S
              ELSE [NewNode(S, SpareIdOf(w), LeafNode(<< >>)) EXCEPT !.spare[w] = SpareIdOf(w)]
        result == S0.spare[w]
        s == patch_ops(RunningBatch(S), leaf, t.upd.upd_begin, t.upd.upd_end,
                       [in |-> 0, out |-> << >>, fault |-> FALSE])
        keys == s.out \o (IF s.in < leaf.slotuse
                          THEN SubSeq(leaf.slotkey, s.in + 1, leaf.slotuse) ELSE << >>)
        S1 == [S0 EXCEPT !.nodes[result] = LeafNode(keys),
                         !.fault = @ \/ s.fault \/ s.in > leaf.slotuse
                                     \/ Len(keys) > leafslotmax \/ Len(keys) = 0,
                         !.spare[w] = upd_node,
                         !.patched = @ \cup {[task |-> p, worker |-> w, leaf |-> upd_node,
                                              result |-> result, node_ref |-> t.node_ref]}]
        S2 == SetPointer(SetRouter(S1, t.router_ref, LastKey_tbb(LeafNode(keys))),
                         t.node_ref, result)
    IN  Returned(Accessed(S2,
            ByWorker({Access(p, upd_node, "slotkey", 0 - 1, FALSE),
                      Access(p, upd_node, "slotuse", 0, FALSE),
                      Access(p, result, "slotkey", 0 - 1, TRUE),
                      Access(p, result, "slotuse", 0, TRUE)}, w)
              \cup RefAccess(p, t.router_ref, "slotkey", TRUE)
              \cup RefAccess(p, t.node_ref, "childid", TRUE)), p)

\* No rebalancing needed at all: one TreeUpdateTask for every slot i.. of the
\* node that has updates; k children were created so far
RECURSIVE push_updates(_, _, _, _, _, _)
push_updates(S, p, id, su, i, k) ==
    IF i >= S.nodes[id].slotuse THEN [S |-> S, n |-> k]
    ELSE IF hasUpdates(su[i + 1])
    THEN push_updates(
             Accessed([WithTask(S, p \o << k + 1 >>,
                                [NewTask("update") EXCEPT !.node_ref = SlotRef(id, i),
                                                          !.router_ref = SlotRef(id, i),
                                                          !.upd = su[i + 1]])
                          EXCEPT !.nodes[id].weight = SetAt(@, i, su[i + 1].weight, 0)],
                      {Access(p, id, "weight", i, TRUE)}),
             p, id, su, i + 1, k + 1)
    ELSE push_updates(S, p, id, su, i + 1, k)

\* the TreeRewriteTasks of a rebalancing run or of a rewritten inner node: one
\* for every slot i..end-1 of inner of weight > 0, children of task q, which
\* write into the leaves of task owner; j of them were created so far
RECURSIVE push_rewrites(_, _, _, _, _, _, _, _, _)
push_rewrites(S, q, owner, inner, su, i, end, rank, j) ==
    IF i >= end THEN [S |-> S, n |-> j]
    ELSE IF su[i + 1].weight > 0
    THEN push_rewrites(WithTask(S, q \o << j + 1 >>,
                                [NewTask("rewrite") EXCEPT !.source_node = inner.childid[i + 1],
                                                           !.rank = rank,
                                                           !.upd = su[i + 1],
                                                           !.leaves_of = owner]),
                       q, owner, inner, su, i + 1, end, rank + su[i + 1].weight, j + 1)
    ELSE push_rewrites(S, q, owner, inner, su, i + 1, end, rank + su[i + 1].weight, j)

\* The while loop of the rebalancing branch of TreeUpdateTask::execute from
\* slot in of the node id on: out slots of result are taken, k children were
\* created so far
RECURSIVE rebalance_tbb(_, _, _, _, _, _, _, _)
rebalance_tbb(S, p, id, result, su, in, out, k) ==
    LET inner == S.nodes[id]
        run == find_run(inner, su, designated_subtreesize_tbb(inner.level),
                        [in |-> in, weight |-> 0, open |-> FALSE])
        q == p \o << k + 1 >>
        \* a TreeRootCreationTask for the run, with the rewrite tasks of its slots
        Run ==
            LET task == [NewTask("root_creation") EXCEPT
                             !.node_ref = LocalRef(p, result),
                             !.old_slotuse = out, !.level = inner.level, !.size = run.weight,
                             !.subtask_count = run.in - in]
                r == push_rewrites(WithTask(S, q, task), q, q, inner, su, in, run.in, 0, 0)
            IN  rebalance_tbb(
                    Accessed([r.S EXCEPT !.tasks[q].children = r.n],
                             {Access(p, id, "childid", i, FALSE) : i \in in..(run.in - 1)}),
                    p, id, result, su, run.in,
                    out + num_subtrees_tbb(run.weight, designated_subtreesize_tbb(inner.level)),
                    k + 1)
        \* the slot the run loop stopped at is copied
        c == run.in
        Copy ==
            LET S1 == IF hasUpdates(su[c + 1])
                      THEN WithTask(S, q, [NewTask("update") EXCEPT
                                               !.node_ref = SlotRef(id, c),
                                               !.router_ref = SlotRef(result, out),
                                               !.upd = su[c + 1]])
                      ELSE [S EXCEPT !.nodes[result].slotkey =
                                         SetAt(@, out, inner.slotkey[c + 1], Uninit)]
                S2 == [S1 EXCEPT !.nodes[result].weight = SetAt(@, out, su[c + 1].weight, 0),
                                 !.nodes[result].childid =
                                     SetAt(@, out, inner.childid[c + 1], NullId)]
            IN  rebalance_tbb(
                    Accessed(S2, {Access(p, id, "childid", c, FALSE),
                                  Access(p, result, "childid", out, TRUE),
                                  Access(p, result, "weight", out, TRUE)}
                                   \cup (IF hasUpdates(su[c + 1]) THEN {}
                                         ELSE {Access(p, result, "slotkey", out, TRUE)})),
                    p, id, result, su, c + 1, out + 1,
                    k + BoolInt(hasUpdates(su[c + 1])))
    IN  IF in >= inner.slotuse \/ S.fault THEN [S |-> S, out |-> out, n |-> k]
        ELSE IF run.weight > 0 THEN Run
        ELSE IF c >= inner.slotuse
             \* subtree_updates[in] and the slot in are read behind the last slot
             THEN [S |-> [S EXCEPT !.fault = TRUE], out |-> out, n |-> k]
        ELSE Copy

\* TreeUpdateTask::execute up to its spawn_and_wait_for_all, or to its end on a
\* leaf; w is the worker that runs it
execute_update(S, p, w) ==
    LET t == S.tasks[p]
        upd_node == Deref(S, t.node_ref)
        inner == S.nodes[upd_node]
        su == distribute_tbb(S, inner, 0, t.upd.upd_begin, t.upd.upd_end, << >>)
        S0 == Accessed(S, DistributionAccesses(p, upd_node))
        Plain ==
            LET r == push_updates(S0, p, upd_node, su, 0, 0)
            IN  spawn_and_wait_for_all([r.S EXCEPT !.tasks[p].inner = upd_node], p, r.n)
        Rebalancing ==
            LET result == NewNodeId(p, 0)
                r == rebalance_tbb(allocate_inner_tbb(S0, result, inner.level),
                                   p, upd_node, result, su, 0, 0, 0)
            IN  spawn_and_wait_for_all([r.S EXCEPT !.tasks[p].inner = upd_node,
                                                   !.tasks[p].result = result,
                                                   !.tasks[p].out = r.out], p, r.n)
    IN  IF upd_node \notin DOMAIN S.nodes \/ upd_node \in S.freed
        THEN [S EXCEPT !.fault = TRUE, !.read_freed = @ \/ upd_node \in S.freed]
        ELSE IF inner.level = 0 THEN update_leaf_tbb(S, p, w)
        ELSE IF ~AnyRebalancing(su) THEN Plain
        ELSE Rebalancing

\* TreeUpdateTask::execute after its spawn_and_wait_for_all
continue_update(S, p) ==
    LET t == S.tasks[p]
        inner == S.nodes[t.inner]
        result == S.nodes[t.result]
    IN  IF t.result = NullId
        THEN Returned(Accessed(SetRouter(S, t.router_ref, LastKey_tbb(inner)),
                               {Access(p, t.inner, "slotkey", inner.slotuse - 1, FALSE)}
                                 \cup RefAccess(p, t.router_ref, "slotkey", TRUE)), p)
        ELSE LET S1 == SetRouter(S, t.router_ref,
                                 LastKey_tbb([result EXCEPT !.slotuse = t.out]))
                 S2 == [S1 EXCEPT !.nodes[t.result].slotuse = t.out]
                 upd_node == Deref(S2, t.node_ref)
             IN  Returned(Accessed(SetPointer(free_node_tbb(S2, upd_node), t.node_ref, t.result),
                                   {Access(p, t.result, "slotkey", t.out - 1, FALSE),
                                    Access(p, t.result, "slotuse", 0, TRUE)}
                                     \cup RefAccess(p, t.router_ref, "slotkey", TRUE)
                                     \cup RefAccess(p, t.node_ref, "childid", TRUE)), p)

\* allocate_new_leaves(n) of the root creation task q: leaf i is filled up to
\* designated_leafsize, the last leaf takes the rest
RECURSIVE allocate_new_leaves_tbb(_, _, _, _, _)
allocate_new_leaves_tbb(S, q, n, leaf_count, i) ==
    IF i >= leaf_count THEN S
    ELSE LET id == NewNodeId(q, i)
             slotuse == IF i = leaf_count - 1 THEN n - (leaf_count - 1) * designated_leafsize
                        ELSE designated_leafsize
         IN  allocate_new_leaves_tbb(
                 [allocate_leaf_tbb(S, id) EXCEPT !.nodes[id].slotuse = slotuse,
                                                  !.tasks[q].leaves = Append(@, id)],
                 q, n, leaf_count, i + 1)

\* TreeRootCreationTask::execute up to its first spawn_and_wait_for_all: the
\* reference count is set from subtask_count, the subtasks are spawned
execute_root_creation(S, q) ==
    LET t == S.tasks[q]
        S1 == allocate_new_leaves_tbb(S, q, t.size,
                                      num_subtrees_tbb(t.size, designated_leafsize), 0)
    IN  [spawn(S1, q, t.children) EXCEPT !.tasks[q].pc = "waiting",
                                         !.tasks[q].ref_count = t.subtask_count + 1]

\* TreeRootCreationTask::execute between its two waits: the TreeCreationTask
\* that builds the tree over the filled leaves
continue_root_creation(S, q) ==
    LET t == S.tasks[q]
        c == q \o << t.children + 1 >>
        task == [NewTask("creation") EXCEPT
                     !.node_ref = t.node_ref, !.old_slotuse = t.old_slotuse,
                     !.reuse_node = Deref(S, t.node_ref) # NullId, !.level = t.level,
                     !.rank = 0, !.rank_end = t.size, !.leaves_of = q, !.pc = "spawned"]
    IN  [WithTask(S, c, task) EXCEPT !.tasks[q].pc = "joined",
                                     !.tasks[q].children = @ + 1,
                                     !.tasks[q].ref_count = 2,
                                     !.dangling = @ \/ t.node_ref.kind = "local"]

\* the child tasks of a TreeCreationTask p on an inner node: one for each of
\* the slots i..new_slotuse-1 of result
RECURSIVE push_creations(_, _, _, _, _, _, _)
push_creations(S, p, result, i, new_slotuse, rank, k) ==
    LET t == S.tasks[p]
        designated_treesize == designated_subtreesize_tbb(t.level)
        weight == IF i # new_slotuse - 1 THEN designated_treesize ELSE t.rank_end - rank
    IN  IF i >= new_slotuse THEN S
        ELSE push_creations(
                 Accessed([WithTask(S, p \o << k + 1 >>,
                                    [NewTask("creation") EXCEPT
                                         !.node_ref = SlotRef(result, i),
                                         !.router_ref = SlotRef(result, i),
                                         !.level = t.level - 1, !.rank = rank,
                                         !.rank_end = rank + weight,
                                         !.leaves_of = t.leaves_of])
                              EXCEPT !.nodes[result].weight = SetAt(@, i, weight, 0),
                                     !.fault = @ \/ i >= innerslotmax],
                          {Access(p, result, "weight", i, TRUE)}),
                 p, result, i + 1, new_slotuse, rank + weight, k + 1)

\* TreeCreationTask::execute up to its spawn_and_wait_for_all, or to its end
\* on level 0
execute_creation(S, p) ==
    LET t == S.tasks[p]
        leaves == S.tasks[t.leaves_of].leaves
        OnLeaf ==
            LET index == t.rank \div designated_leafsize
                result == leaves[index + 1]
                node == S.nodes[result]
            IN  IF index >= Len(leaves) THEN [S EXCEPT !.fault = TRUE]
                ELSE Returned(Accessed(
                         [SetPointer(SetRouter(S, t.router_ref, LastKey_tbb(node)),
                                     t.node_ref, result)
                             EXCEPT !.fault = @ \/ t.rank_end - t.rank # node.slotuse],
                         {Access(p, result, "slotuse", 0, FALSE),
                          Access(p, result, "slotkey", node.slotuse - 1, FALSE)}
                           \cup RefAccess(p, t.router_ref, "slotkey", TRUE)
                           \cup RefAccess(p, t.node_ref, "childid", TRUE)), p)
        OnInner ==
            LET subtrees == num_subtrees_tbb(t.rank_end - t.rank,
                                             designated_subtreesize_tbb(t.level))
                result == IF t.reuse_node THEN Deref(S, t.node_ref) ELSE NewNodeId(p, 0)
                S1 == IF t.reuse_node THEN S ELSE allocate_inner_tbb(S, result, t.level)
                new_slotuse == subtrees + t.old_slotuse
                S2 == push_creations([S1 EXCEPT !.fault = @ \/ new_slotuse > innerslotmax],
                                     p, result, t.old_slotuse, new_slotuse, t.rank, 0)
            IN  spawn_and_wait_for_all([S2 EXCEPT !.tasks[p].result = result,
                                                  !.tasks[p].out = new_slotuse],
                                       p, subtrees)
    IN  IF t.level = 0 THEN OnLeaf ELSE OnInner

\* TreeCreationTask::execute after its spawn_and_wait_for_all
continue_creation(S, p) ==
    LET t == S.tasks[p]
        S1 == [S EXCEPT !.nodes[t.result].slotuse = t.out]
        S2 == SetRouter(S1, t.router_ref, LastKey_tbb(S1.nodes[t.result]))
    IN  Returned(Accessed(SetPointer(S2, t.node_ref, t.result),
                          {Access(p, t.result, "slotuse", 0, TRUE),
                           Access(p, t.result, "slotkey", t.out - 1, FALSE)}
                            \cup RefAccess(p, t.router_ref, "slotkey", TRUE)
                            \cup RefAccess(p, t.node_ref, "childid", TRUE)), p)

\* the cells of the destination leaves ids that differ between before and
\* after, as write accesses of task p
WrittenCells(p, ids, before, after) ==
    {Access(p, ids[l], "slotkey", o - 1, TRUE) :
        <<l, o>> \in {c \in (1..Len(ids)) \X (1..leafslotmax) :
                        /\ c[2] <= Len(after[c[1]].slotkey)
                        /\ after[c[1]].slotkey[c[2]] # Uninit
                        /\ \/ c[2] > Len(before[c[1]].slotkey)
                           \/ before[c[1]].slotkey[c[2]] # after[c[1]].slotkey[c[2]]}}

\* TreeRewriteTask::execute up to its spawn_and_wait_for_all, or to its end on
\* a leaf
execute_rewrite(S, p) ==
    LET t == S.tasks[p]
        source == S.nodes[t.source_node]
        ids == S.tasks[t.leaves_of].leaves
        before == [l \in 1..Len(ids) |-> S.nodes[ids[l]]]
        OnLeaf ==
            LET s == IF resultTreeIsSmall(RunningBatch(S), t.upd)
                     THEN write_updated_leaf_range(RunningBatch(S), source, 0, t.rank,
                                                   t.upd.upd_begin, t.upd.upd_end, t.upd, before)
                     ELSE rewrite_blocked_range(RunningBatch(S), source, t.rank, t.upd,
                              [begin |-> t.upd.upd_begin, end |-> t.upd.upd_end], before)
                S1 == [S EXCEPT !.nodes = [x \in DOMAIN @ |->
                                              IF \E l \in 1..Len(ids) : ids[l] = x
                                              THEN [@[x] EXCEPT !.slotkey =
                                                       s.leaves[CHOOSE l \in 1..Len(ids) :
                                                                    ids[l] = x].slotkey]
                                              ELSE @[x]],
                                !.fault = @ \/ s.fault]
            IN  Returned(free_node_tbb(
                    Accessed(S1, {Access(p, t.source_node, "slotkey", 0 - 1, FALSE),
                                  Access(p, t.source_node, "slotuse", 0, FALSE)}
                                   \cup WrittenCells(p, ids, before, s.leaves)),
                    t.source_node), p)
        OnInner ==
            LET su == distribute_tbb(S, source, 0, t.upd.upd_begin, t.upd.upd_end, << >>)
                r == push_rewrites(Accessed(S, DistributionAccesses(p, t.source_node)
                                                 \cup {Access(p, t.source_node, "childid", 0 - 1, FALSE)}),
                                   p, t.leaves_of, source, su, 0, source.slotuse, t.rank, 0)
            IN  spawn_and_wait_for_all(r.S, p, r.n)
    IN  IF t.source_node \notin DOMAIN S.nodes \/ t.source_node \in S.freed
        THEN [S EXCEPT !.fault = TRUE, !.read_freed = @ \/ t.source_node \in S.freed]
        ELSE IF source.level = 0 THEN OnLeaf ELSE OnInner

\* TreeRewriteTask::execute after its spawn_and_wait_for_all
continue_rewrite(S, p) == Returned(free_node_tbb(S, S.tasks[p].source_node), p)

\* a wait of a rewrite task that returns while its subtasks are still running
Joined_early(S, p) == S.tasks[p].kind = "rewrite" \/ S.tasks[p].ref_count = 1

\* spawn_and_wait_for_all of task p returns: its reference count is back at 1
Joined(S, p) == S.tasks[p].ref_count = 1

\* clear_recursive(n)
RECURSIVE clear_recursive_tbb(_, _)
RECURSIVE clear_children_tbb(_, _, _)
clear_children_tbb(S, id, slot) ==
    IF slot >= S.nodes[id].slotuse \/ S.fault THEN S
    ELSE clear_children_tbb(clear_recursive_tbb(S, S.nodes[id].childid[slot + 1]), id, slot + 1)

clear_recursive_tbb(S, id) ==
    IF id \notin DOMAIN S.nodes \/ id \in S.freed
    THEN [S EXCEPT !.fault = TRUE, !.read_freed = @ \/ id \in S.freed]
    ELSE IF S.nodes[id].level = 0 THEN free_node_tbb(S, id)
    ELSE free_node_tbb(clear_children_tbb(S, id, 0), id)

\* clear() of the parallel tree; the assertions on the counters are left to
\* the properties
clear_tbb(S) ==
    IF S.root # NullId THEN [clear_recursive_tbb(S, S.root) EXCEPT !.root = NullId] ELSE S

\* The trees the bulk updates start from: a tree without keys, a root leaf,
\* or a root of level 1 over up to MaxLeavesPar leaves, each leaf with
\* leafslotmin or designated_leafsize keys.  Leaf j holds the keys 20j + 2i.
\* For each leaf the batch has nothing, inserts one or four keys below the
\* keys of the leaf, or deletes its first key or all its keys; into the tree
\* without keys it inserts four or nine keys
LeafSizesPar ==
    UNION {[1..n -> {leafslotmin, designated_leafsize}] : n \in 0..MaxLeavesPar}

LeafChoices == {"none", "insert", "overflow", "delete", "empty"}

LeafKeysPar(sizes, j) == [i \in 1..sizes[j] |-> ScenarioKey(20 * j + 2 * i)]

InsertedPar(choices, j) ==
    CASE choices[j] = "insert" -> {20 * j - 7}
      [] choices[j] = "overflow" -> {20 * j - 7, 20 * j - 5, 20 * j - 3, 20 * j - 1}
      [] OTHER -> {}

DeletedPar(sizes, choices, j) ==
    CASE choices[j] = "delete" -> {20 * j + 2}
      [] choices[j] = "empty" -> {20 * j + 2 * i : i \in 1..sizes[j]}
      [] OTHER -> {}

BatchPar(sizes, choices, fresh) ==
    LET inserted == UNION {InsertedPar(choices, j) : j \in 1..Len(sizes)} \cup (1..fresh)
        deleted == UNION {DeletedPar(sizes, choices, j) : j \in 1..Len(sizes)}
        keys == SortAll({ScenarioKey(i) : i \in inserted \cup deleted})
    IN  [i \in 1..Len(keys) |->
            [type |-> IF keys[i].first_weight \in deleted THEN DELETE ELSE INSERT,
             data |-> keys[i]]]

\* the heap of the tree with the leaves of sizes
HeapPar(sizes) ==
    [x \in {<< j >> : j \in 1..Len(sizes)} \cup (IF Len(sizes) > 1 THEN {<< 0 >>} ELSE {}) |->
        IF x = << 0 >>
        THEN [level |-> 1, slotuse |-> Len(sizes),
              slotkey |-> [j \in 1..Len(sizes) |-> ScenarioKey(20 * j + 2 * sizes[j])],
              weight |-> sizes,
              childid |-> [j \in 1..Len(sizes) |-> << j >>]]
        ELSE LeafNode(LeafKeysPar(sizes, x[1]))]

\* the parallel tree between two bulk updates
TreePar(sizes, choices) ==
    [op |-> "tasks", pc |-> "idle", nodes |-> HeapPar(sizes), freed |-> {},
     root |-> CASE Len(sizes) = 0 -> NullId [] Len(sizes) = 1 -> << 1 >> [] OTHER -> << 0 >>,
     new_root |-> NullId, updates |-> << >>, weightdelta |-> << 0 >>,
     stats |-> [itemcount |-> SumTo(sizes, Len(sizes)), leaves |-> Len(sizes),
                innernodes |-> BoolInt(Len(sizes) > 1)],
     spare |-> [w \in 1..MaxWorkers |-> NullId],
     tasks |-> << >>, acc |-> {}, patched |-> {}, sizes |-> sizes, choices |-> choices,
     rebuild |-> FALSE, dangling |-> FALSE, fault |-> FALSE, read_freed |-> FALSE]

\* apply_updates of the parallel tree up to its spawn_root_and_wait
apply_updates_tbb(S0, _updates) ==
    LET wd == PrefixSum(_updates, 0, 0, << 0 >>)
        new_size == S0.stats.itemcount + wd[Len(_updates) + 1]
        S == [S0 EXCEPT !.updates = _updates, !.weightdelta = wd, !.stats.itemcount = new_size]
        S1 == IF S.root = NullId
              THEN [allocate_leaf_tbb(S, NewNodeId(<< >>, 0)) EXCEPT !.root = NewNodeId(<< >>, 0)]
              ELSE S
        root_node == S1.nodes[S1.root]
        level == num_optimal_levels_tbb(new_size)
        rebuild_needed == \/ (level < root_node.level /\ new_size < minweight(root_node.level))
                          \/ new_size > maxweight(root_node.level)
        upd == [rebalancing_needed |-> FALSE, weight |-> new_size,
                upd_begin |-> 0, upd_end |-> Len(_updates)]
    IN  IF new_size = 0 THEN [clear_tbb(S) EXCEPT !.pc = "done"]
        ELSE IF rebuild_needed
        THEN [WithTask(WithTask(S1, << 1 >>,
                           [NewTask("root_creation") EXCEPT
                                !.node_ref = NewRootRef, !.level = level, !.size = new_size,
                                !.subtask_count = 1, !.children = 1, !.pc = "spawned"]),
                       << 1, 1 >>,
                       [NewTask("rewrite") EXCEPT !.source_node = S1.root, !.upd = upd,
                                                  !.leaves_of = << 1 >>])
                 EXCEPT !.pc = "waiting", !.rebuild = TRUE, !.new_root = NullId]
        ELSE [WithTask(S1, << 1 >>,
                       [NewTask("update") EXCEPT !.node_ref = RootRef, !.upd = upd,
                                                 !.pc = "spawned"])
                 EXCEPT !.pc = "waiting"]

\* apply_updates is called on one of the trees
StartUpdate ==
    /\ seen = NoneSeen
    /\ \E sizes \in LeafSizesPar :
         \E choices \in [1..Len(sizes) -> LeafChoices],
            fresh \in (IF Len(sizes) = 0 THEN {4, 9} ELSE {0}) :
           /\ Cardinality({j \in 1..Len(sizes) : sizes[j] = leafslotmin}) <= 1
           /\ BatchPar(sizes, choices, fresh) # << >>
           /\ seen' = apply_updates_tbb(TreePar(sizes, choices),
                                        BatchPar(sizes, choices, fresh))
    /\ Unobserved

\* worker w takes the spawned task p and runs its execute() up to the wait
\* for its children, or to its end
ExecuteTask(w, p) ==
    /\ seen.op = "tasks" /\ seen.pc = "waiting" /\ ~seen.fault
    /\ p \in DOMAIN seen.tasks
    /\ seen.tasks[p].pc = "spawned"
    /\ seen' = CASE seen.tasks[p].kind = "update" -> execute_update(seen, p, w)
                 [] seen.tasks[p].kind = "rewrite" -> execute_rewrite(seen, p)
                 [] seen.tasks[p].kind = "root_creation" -> execute_root_creation(seen, p)
                 [] OTHER -> execute_creation(seen, p)
    /\ Unobserved

\* the children of task p returned: its execute() goes on behind the wait
ContinueTask(p) ==
    /\ seen.op = "tasks" /\ seen.pc = "waiting" /\ ~seen.fault
    /\ p \in DOMAIN seen.tasks
    /\ seen.tasks[p].pc \in {"waiting", "joined"}
    /\ Joined(seen, p)
    /\ seen' = CASE seen.tasks[p].kind = "update" -> continue_update(seen, p)
                 [] seen.tasks[p].kind = "rewrite" -> continue_rewrite(seen, p)
                 [] seen.tasks[p].kind = "root_creation" /\ seen.tasks[p].pc = "waiting" ->
                        continue_root_creation(seen, p)
                 [] seen.tasks[p].kind = "root_creation" -> Returned(seen, p)
                 [] OTHER -> continue_creation(seen, p)
    /\ Unobserved

\* spawn_root_and_wait returns; root = new_root after a rebuild
FinishUpdate ==
    /\ seen.op = "tasks" /\ seen.pc = "waiting" /\ ~seen.fault
    /\ seen.tasks[<< 1 >>].pc = "done"
    /\ seen' = [seen EXCEPT !.pc = "done",
                            !.root = IF seen.rebuild THEN seen.new_root ELSE @]
    /\ Unobserved

\* clear() is called on the tree after the update
ClearAfterUpdate ==
    /\ seen.op = "tasks" /\ seen.pc = "done" /\ ~seen.fault
    /\ seen' = [clear_tbb(seen) EXCEPT !.pc = "cleared"]
    /\ Unobserved

\* the paths of the tasks of the update
TasksOf == IF seen.op = "tasks" THEN DOMAIN seen.tasks ELSE {}

NextTasks ==
    \/ StartUpdate
    \/ \E w \in 1..MaxWorkers, p \in TasksOf : ExecuteTask(w, p)
    \/ \E p \in TasksOf : ContinueTask(p)
    \/ FinishUpdate
    \/ ClearAfterUpdate

SpecTasks == Init /\ [][NextTasks]_vars

\* the nodes reachable from node id through the slots in use
RECURSIVE ReachableFrom(_, _)
ReachableFrom(S, id) ==
    IF id \notin DOMAIN S.nodes THEN {}
    ELSE {id} \cup UNION {ReachableFrom(S, S.nodes[id].childid[i]) :
                            i \in 1..(IF S.nodes[id].level = 0 THEN 0
                                      ELSE IF S.nodes[id].slotuse <= Len(S.nodes[id].childid)
                                           THEN S.nodes[id].slotuse
                                           ELSE Len(S.nodes[id].childid))}

\* task p is on the path from the root task to task q
IsAncestor(p, q) == Len(p) <= Len(q) /\ SubSeq(q, 1, Len(p)) = p

\* the tasks p and q may run at the same time: neither waits for the other,
\* and they are not on either side of the first wait of a root creation task,
\* whose TreeCreationTask is created after its subtasks returned
RECURSIVE CommonPrefix(_, _)
CommonPrefix(p, q) ==
    IF p = << >> \/ q = << >> \/ Head(p) # Head(q) THEN << >>
    ELSE << Head(p) >> \o CommonPrefix(Tail(p), Tail(q))

MayRunConcurrently(S, p, q) ==
    /\ ~IsAncestor(p, q) /\ ~IsAncestor(q, p)
    /\ LET a == CommonPrefix(p, q)
           i == p[Len(a) + 1]
           j == q[Len(a) + 1]
       IN  ~(/\ a \in DOMAIN S.tasks
             /\ S.tasks[a].kind = "root_creation"
             /\ (S.tasks[a \o << i >>].kind = "creation") # (S.tasks[a \o << j >>].kind = "creation"))

\* two accesses to the same cell, one of them a write, and not both made by
\* the same thread
Conflicting(x, y) ==
    /\ x.worker = 0 \/ x.worker # y.worker
    /\ x.node = y.node /\ x.field = y.field
    /\ (x.index = y.index \/ x.index = 0 - 1 \/ y.index = 0 - 1)
    /\ (x.write \/ y.write)
\* the leaves and the inner nodes reachable from the root
ReachableLeaves(S) == {id \in ReachableFrom(S, S.root) : S.nodes[id].level = 0}

ReachableInner(S) == {id \in ReachableFrom(S, S.root) : S.nodes[id].level > 0}

\* the children task p has created
ChildrenOf(S, p) == {p \o << k >> : k \in 1..S.tasks[p].children}

\* C31: in the parallel bulk update a rewrite task frees its source node only
\* after every child rewrite task it spawned has completed (and an update
\* task the inner node it replaced only after its subtasks have), and no
\* task reads a node after that node was freed
C31_FreedAfterChildren ==
    seen.op = "tasks" =>
        /\ ~seen.read_freed
        /\ \A p \in DOMAIN seen.tasks :
              \/ /\ seen.tasks[p].kind = "rewrite" => seen.tasks[p].source_node \notin seen.freed
                 /\ seen.tasks[p].kind = "update" => seen.tasks[p].inner \notin seen.freed
              \/ \A q \in ChildrenOf(seen, p) : seen.tasks[q].pc = "done"

\* a rewrite task on an inner node has freed the node after its two or more
\* child rewrite tasks returned
C31_InnerSourceFreed ==
    /\ seen.op = "tasks"
    /\ \E p \in DOMAIN seen.tasks :
          /\ seen.tasks[p].kind = "rewrite"
          /\ seen.tasks[p].children >= 2
          /\ seen.tasks[p].source_node \in seen.freed
          /\ \A q \in ChildrenOf(seen, p) :
                seen.tasks[q].kind = "rewrite" /\ seen.tasks[q].pc = "done"

\* C32: during a parallel apply_updates no two tasks that may run
\* concurrently access the same cell of a tree node, or the same key slot of
\* a destination leaf, with at least one of them writing
C32_NoConflictingAccesses ==
    seen.op = "tasks" =>
        \A x, y \in seen.acc :
            MayRunConcurrently(seen, x.task, y.task) => ~Conflicting(x, y)

\* C33: after a leaf patch the parent slot points to the former spare leaf
\* with the merged keys and the former live leaf is the spare of the worker
\* (until a later patch of that worker takes it as its result); between
\* operations no spare leaf is reachable from the root and no two workers
\* have the same spare leaf
C33_SpareLeavesApart ==
    (seen.op = "tasks" /\ seen.pc = "done" /\ ~seen.fault) =>
        /\ \A w \in DOMAIN seen.spare :
              seen.spare[w] # NullId => seen.spare[w] \notin ReachableFrom(seen, seen.root)
        /\ \A w1, w2 \in DOMAIN seen.spare :
              (w1 # w2 /\ seen.spare[w1] # NullId) => seen.spare[w1] # seen.spare[w2]
        /\ \A e \in seen.patched :
              /\ e.result \in ReachableFrom(seen, seen.root)
              /\ \/ \E w \in DOMAIN seen.spare : seen.spare[w] = e.leaf
                 \/ \E f \in seen.patched : f.worker = e.worker /\ f.result = e.leaf

\* C34: after every completed apply_updates the leaf counter is the number
\* of leaves reachable from the root and the inner-node counter the number
\* of reachable inner nodes, whatever the order of the tasks; after clear
\* both counters are 0
C34_CountersMatchReachable ==
    (seen.op = "tasks" /\ ~seen.fault) =>
        /\ seen.pc = "done" =>
              /\ seen.stats.leaves = Cardinality(ReachableLeaves(seen))
              /\ seen.stats.innernodes = Cardinality(ReachableInner(seen))
        /\ seen.pc = "cleared" =>
              seen.stats.leaves = 0 /\ seen.stats.innernodes = 0

\* The public clear()
Clear ==
    \E r \in {clear(Members, Root)} :
        /\ ~fault
        /\ root' = Content(r.root)
        /\ heap' = HeapAfter(r.t, r.root)
        /\ stats' = r.t.stats
        /\ fault' = (fault \/ r.t.fault)
        /\ lastop' = "clear"
        /\ paths' = {}
        /\ minima' = << >>
        /\ UNCHANGED << ref_keys, ref_size, call, seen, parvars >>

NextClear == ApplyUpdates \/ ApplyBulk \/ FindParetoMinima \/ Clear

SpecClear == Init /\ [][NextClear]_vars

====
